---- MODULE Spec2Model ----
(***************************************************************************)
(* A model of pgcli's SSH tunnel helper (src/pgcli/ssh_tunnel.py):         *)
(* SSHTunnelManager (rule matching, start_tunnel, stop_tunnel),            *)
(* _NativeSSHTunnel (start, stop) and _ForwardHandler (handle).            *)
(*                                                                         *)
(* Python strings are sequences of one-character strings, so that          *)
(* re.fullmatch and urlparse are computed character by character.          *)
(***************************************************************************)
EXTENDS Integers, Sequences, FiniteSets, TLC

\* ------------------------------------------------------------------------
\* Strings
\* ------------------------------------------------------------------------

\* Python's None where a string is expected (no character is "<None>").
None == <<"<None>">>

\* Python truthiness of an Optional[str]: neither None nor "".
Truthy(s) == s # None /\ s # <<>>

S_prod == <<"p", "r", "o", "d">>
S_production == <<"p", "r", "o", "d", "u", "c", "t", "i", "o", "n">>
S_nonprod == <<"n", "o", "n", "p", "r", "o", "d">>
S_prod_example_com == <<"p", "r", "o", "d", ".", "e", "x", "a", "m", "p", "l", "e", ".", "c", "o", "m">>
S_db_prod_com == <<"d", "b", ".", "p", "r", "o", "d", ".", "c", "o", "m">>
S_localhost == <<"l", "o", "c", "a", "l", "h", "o", "s", "t">>

\* Rule patterns (regular expressions).
P_prod == <<"p", "r", "o", "d">>
P_any == <<".", "*">>
P_db_prod_com == <<"d", "b", "\\", ".", "p", "r", "o", "d", "\\", ".", "c", "o", "m">>
P_prod_any == <<"p", "r", "o", "d", ".", "*">>

\* Tunnel specifications.
U_bastion == <<"b", "a", "s", "t", "i", "o", "n", ":", "2", "2">>
U_ssh_user_jump == <<"s", "s", "h", ":", "/", "/", "u", "s", "e", "r", "@", "j", "u", "m", "p">>
U_explicit == <<"s", "s", "h", ":", "/", "/", "e", "x", "p", "l", "i", "c", "i", "t", "@", "h", "o", "s", "t", ":", "2", "2">>

U_user_pw == <<"s", "s", "h", ":", "/", "/", "u", "s", "e", "r", ":", "s", "3", "c", "r", "e", "t", "@", "B", "a", "s", "t", "i", "o", "n", ":", "2", "2", "2", "2">>
U_badport == <<"b", "a", "s", "t", "i", "o", "n", ":", "x">>

S_jump == <<"j", "u", "m", "p">>
S_bastion == <<"b", "a", "s", "t", "i", "o", "n">>
S_loopback == <<"1", "2", "7", ".", "0", ".", "0", ".", "1">>

\* The first index k >= i with s[k] in the character set cs, or 0.
IndexFrom(s, cs, i) ==
    LET hits == {k \in i..Len(s) : s[k] \in cs}
    IN  IF hits = {} THEN 0 ELSE CHOOSE k \in hits : \A m \in hits : k <= m

\* The last index k with s[k] = c, or 0 (str.rpartition).
LastIndex(s, c) ==
    LET hits == {k \in 1..Len(s) : s[k] = c}
    IN  IF hits = {} THEN 0 ELSE CHOOSE k \in hits : \A m \in hits : m <= k

\* sub in s (Python's "in" for strings).
Contains(s, sub) ==
    \E k \in 0..(Len(s) - Len(sub)) : SubSeq(s, k + 1, k + Len(sub)) = sub

UpperToLower ==
    [A |-> "a", B |-> "b", C |-> "c", D |-> "d", E |-> "e", F |-> "f", G |-> "g",
     H |-> "h", I |-> "i", J |-> "j", K |-> "k", L |-> "l", M |-> "m", N |-> "n",
     O |-> "o", P |-> "p", Q |-> "q", R |-> "r", S |-> "s", T |-> "t", U |-> "u",
     V |-> "v", W |-> "w", X |-> "x", Y |-> "y", Z |-> "z"]

\* str.lower()
Lower(s) ==
    [k \in 1..Len(s) |-> IF s[k] \in DOMAIN UpperToLower THEN UpperToLower[s[k]] ELSE s[k]]

DigitValue == [d \in {"0", "1", "2", "3", "4", "5", "6", "7", "8", "9"} |->
                 CHOOSE v \in 0..9 : <<"0", "1", "2", "3", "4", "5", "6", "7", "8", "9">>[v + 1] = d]

IsDigits(s) == Len(s) > 0 /\ \A k \in 1..Len(s) : s[k] \in DOMAIN DigitValue

\* int(s) for a string of decimal digits.
RECURSIVE ToInt(_)
ToInt(s) ==
    IF Len(s) = 0 THEN 0
    ELSE 10 * ToInt(SubSeq(s, 1, Len(s) - 1)) + DigitValue[s[Len(s)]]

\* ------------------------------------------------------------------------
\* urllib.parse.urlparse, for [scheme://][user[:password]@]host[:port]
\* ------------------------------------------------------------------------

\* Python's None where a port is expected.
NoPort == -1
\* int(port) raised ValueError (not digits, or out of range).
BadPort == -2

\* Lines 298-300: the scheme is added when the specification has no "://".
with_scheme(url) ==
    IF Contains(url, <<":", "/", "/">>) THEN url
    ELSE <<"s", "s", "h", ":", "/", "/">> \o url

\* The network location: what follows "<scheme>://" up to the first of
\* "/", "?" and "#"; empty when "//" does not follow the scheme's colon.
Netloc(url) ==
    LET colon == IndexFrom(url, {":"}, 1)
        slashes == colon # 0 /\ SubSeq(url, colon + 1, colon + 2) = <<"/", "/">>
        stop == IndexFrom(url, {"/", "?", "#"}, colon + 3)
    IN  IF ~slashes THEN <<>>
        ELSE SubSeq(url, colon + 3, IF stop = 0 THEN Len(url) ELSE stop - 1)

\* ParseResult.username: the part of the user information before its first
\* ":"; None when the network location has no "@" (at = 0).
Username(userinfo, at) ==
    LET ucolon == IndexFrom(userinfo, {":"}, 1)
    IN  IF at = 0 THEN None
        ELSE IF ucolon = 0 THEN userinfo
        ELSE SubSeq(userinfo, 1, ucolon - 1)

\* ParseResult.password: the part of the user information after its first
\* ":"; None when there is no "@" or no ":".
Password(userinfo, at) ==
    LET ucolon == IndexFrom(userinfo, {":"}, 1)
    IN  IF at = 0 \/ ucolon = 0 THEN None
        ELSE SubSeq(userinfo, ucolon + 1, Len(userinfo))

\* ParseResult.hostname: the host information up to its first ":", in lower
\* case; None when it is empty.
Hostname(hostinfo) ==
    LET hcolon == IndexFrom(hostinfo, {":"}, 1)
    IN  IF hcolon = 1 \/ hostinfo = <<>> THEN None
        ELSE IF hcolon = 0 THEN Lower(hostinfo)
        ELSE Lower(SubSeq(hostinfo, 1, hcolon - 1))

\* int(port) with the range check of ParseResult.port.
PortNumber(portstr) ==
    IF portstr = <<>> THEN NoPort
    ELSE IF IsDigits(portstr) /\ Len(portstr) <= 5 /\ ToInt(portstr) <= 65535
    THEN ToInt(portstr)
    ELSE BadPort

\* ParseResult.port: what follows the first ":" of the host information.
Port(hostinfo) ==
    LET hcolon == IndexFrom(hostinfo, {":"}, 1)
    IN  IF hcolon = 0 THEN NoPort
        ELSE PortNumber(SubSeq(hostinfo, hcolon + 1, Len(hostinfo)))

\* The fields of a network location split at its last "@" (at, 0 if none).
ParseResult(netloc, at) ==
    [username |-> Username(SubSeq(netloc, 1, at - 1), at),
     password |-> Password(SubSeq(netloc, 1, at - 1), at),
     hostname |-> Hostname(SubSeq(netloc, at + 1, Len(netloc))),
     port     |-> Port(SubSeq(netloc, at + 1, Len(netloc)))]

\* urlparse(url): .username, .password, .hostname and .port.
urlparse(url) == ParseResult(Netloc(url), LastIndex(Netloc(url), "@"))

\* ------------------------------------------------------------------------
\* Regular expressions: literals, "\c" escapes, "." and a postfix "*"
\* ------------------------------------------------------------------------

\* The pattern from position i on, compiled to a sequence of
\* [atom, star] tokens.
RECURSIVE Tokens(_, _)
Tokens(p, i) ==
    IF i > Len(p) THEN <<>>
    ELSE LET esc  == p[i] = "\\" /\ i < Len(p)
             alen == IF esc THEN 2 ELSE 1
             atom == IF esc THEN [kind |-> "lit", ch |-> p[i + 1]]
                     ELSE IF p[i] = "." THEN [kind |-> "any", ch |-> "."]
                     ELSE [kind |-> "lit", ch |-> p[i]]
             star == i + alen <= Len(p) /\ p[i + alen] = "*"
         IN  <<[atom |-> atom, star |-> star]>>
                 \o Tokens(p, i + alen + (IF star THEN 1 ELSE 0))

AtomMatches(atom, c) == atom.kind = "any" \/ atom.ch = c

\* The regex engine: every end offset e such that tokens i.. of t match
\* s[j+1 .. e] (a match anchored at offset j).
RECURSIVE MatchEnds(_, _, _, _)
MatchEnds(t, i, s, j) ==
    IF i > Len(t) THEN {j}
    ELSE LET one == j < Len(s) /\ AtomMatches(t[i].atom, s[j + 1])
         IN  IF t[i].star
             THEN MatchEnds(t, i + 1, s, j)
                      \cup (IF one THEN MatchEnds(t, i, s, j + 1) ELSE {})
             ELSE IF one THEN MatchEnds(t, i + 1, s, j + 1) ELSE {}

\* re.match: the pattern matches some prefix of s.
re_match(p, s) == MatchEnds(Tokens(p, 1), 1, s, 0) # {}

\* re.fullmatch: the pattern matches s from its first to its last character.
re_fullmatch(p, s) == Len(s) \in MatchEnds(Tokens(p, 1), 1, s, 0)

\* ------------------------------------------------------------------------
\* DsnAliases (src/pgcli/dsnaliases.py): names, values and files
\* ------------------------------------------------------------------------

DSN_D == <<"d", "s", "n", ".", "d">>
DOT_CONF == <<".", "c", "o", "n", "f">>
K_includedir == <<"i", "n", "c", "l", "u", "d", "e", "d", "i", "r">>

\* Alias names and connection strings.
K_mydb == <<"m", "y", "d", "b">>
K_db2 == <<"d", "b", "2">>
K_junk == <<"j", "u", "n", "k">>
K_local == <<"l", "o", "c", "a", "l">>
K_nonexistent == <<"n", "o", "n", "e", "x", "i", "s", "t", "e", "n", "t">>
V_main == <<"p", "g", "-", "m", "a", "i", "n">>
V_local == <<"p", "g", "-", "l", "o", "c", "a", "l">>
V_first == <<"p", "g", "-", "f", "i", "r", "s", "t">>
V_second == <<"p", "g", "-", "s", "e", "c", "o", "n", "d">>
V_two == <<"p", "g", "-", "t", "w", "o">>
V_third == <<"p", "g", "-", "t", "h", "i", "r", "d">>
V_junk == <<"p", "g", "-", "j", "u", "n", "k">>
V_elsewhere == <<"/", "e", "l", "s", "e", "w", "h", "e", "r", "e">>

\* The include directory and the main configuration file.
DsnDirPath == <<"/", "c", "f", "g", "/", "d", "s", "n", ".", "d">>
ConfigPath == <<"/", "c", "f", "g", "/", "c", "o", "n", "f", "i", "g">>

\* File names of the directory.
N_a_first == <<"a", "_", "f", "i", "r", "s", "t", ".", "c", "o", "n", "f">>
N_b_second == <<"b", "_", "s", "e", "c", "o", "n", "d", ".", "c", "o", "n", "f">>
N_Z_last == <<"Z", "_", "l", "a", "s", "t", ".", "c", "o", "n", "f">>
N_notes == <<"c", "_", "n", "o", "t", "e", "s", ".", "t", "x", "t">>
FileNames == {N_a_first, N_b_second, N_Z_last, N_notes}

\* What a name of the directory can be: nothing, a file (with its top-level
\* scalar entries and its [alias_dsn] section, or with text ConfigObj cannot
\* parse) or a subdirectory.
NoEntry == [kind |-> "absent", parse_ok |-> FALSE, top |-> [k \in {} |-> None],
            section |-> [k \in {} |-> None]]
F_first ==
    [kind |-> "file", parse_ok |-> TRUE,
     top |-> [k \in {K_mydb} |-> V_first], section |-> [k \in {} |-> None]]
F_second ==
    [kind |-> "file", parse_ok |-> TRUE,
     top |-> [k \in {K_mydb, K_db2} |-> IF k = K_mydb THEN V_second ELSE V_two],
     section |-> [k \in {} |-> None]]
F_section ==
    [kind |-> "file", parse_ok |-> TRUE,
     top |-> [k \in {K_junk} |-> V_junk],
     section |-> [k \in {K_mydb, K_includedir} |->
                     IF k = K_mydb THEN V_third ELSE V_elsewhere]]
F_broken ==
    [kind |-> "file", parse_ok |-> FALSE,
     top |-> [k \in {} |-> None], section |-> [k \in {} |-> None]]
F_subdir ==
    [kind |-> "dir", parse_ok |-> FALSE,
     top |-> [k \in {} |-> None], section |-> [k \in {} |-> None]]
F_notes ==
    [kind |-> "file", parse_ok |-> TRUE,
     top |-> [k \in {K_junk} |-> V_junk], section |-> [k \in {} |-> None]]

\* What the tests and a user put under each name.
EntriesOf(f) ==
    IF f = N_a_first THEN {F_first, F_section, F_broken}
    ELSE IF f = N_b_second THEN {F_second, F_section, F_subdir}
    ELSE IF f = N_Z_last THEN {F_second}
    ELSE {F_notes}

\* ------------------------------------------------------------------------
\* State
\* ------------------------------------------------------------------------

VARIABLES
    ssh_tunnel_url,         \* SSHTunnelManager.ssh_tunnel_url (None or a string)
    ssh_tunnel_config,      \* host rules: sequence of [pattern, url], insertion order
    dsn_ssh_tunnel_config,  \* alias rules: sequence of [pattern, url], insertion order
    allow_agent,            \* SSHTunnelManager.allow_agent
    host_key_policy,        \* SSHTunnelManager.host_key_policy
    tunnel,                 \* SSHTunnelManager.tunnel: 0 (None) or an index of sessions
    sessions,               \* every _NativeSSHTunnel constructed so far, in order
    conns,                  \* every connection accepted so far (_ForwardHandler instances)
    atexit_hooks,           \* how many times stop_tunnel is registered with atexit
    proc,                   \* the process: [state, status, diagnostics]
    ssh_config,             \* ~/.ssh/config as start_tunnel finds it
    last_call,              \* the last start_tunnel / stop_tunnel call and its outcome
    query,                  \* one find_tunnel_url call: [host, dsn_alias, done, result]
    config,                 \* DsnAliases.config: [filename, alias_dsn]
    include_dir,            \* DsnAliases._include_dir (None or a path)
    included_aliases,       \* DsnAliases._included_aliases (a dict: name -> value)
    fs,                     \* the directory DsnDirPath on disk: [exists, entries]
    loaded,                 \* what the directory held for each name at the latest load
    dump                    \* one pgcli_dump process: its input, position and pg_dump call

manager_vars == <<ssh_tunnel_url, ssh_tunnel_config, dsn_ssh_tunnel_config,
                  allow_agent, host_key_policy>>
vars == <<ssh_tunnel_url, ssh_tunnel_config, dsn_ssh_tunnel_config, allow_agent,
          host_key_policy, tunnel, sessions, conns, atexit_hooks, proc, ssh_config,
          last_call, query, config, include_dir, included_aliases, fs, loaded, dump>>
dsn_vars == <<config, include_dir, included_aliases, fs, loaded>>
tunnel_vars == <<manager_vars, tunnel, sessions, conns, atexit_hooks, proc, ssh_config,
                 last_call, query, dump>>

\* ------------------------------------------------------------------------
\* DsnAliases (src/pgcli/dsnaliases.py): strings, paths and dicts
\* ------------------------------------------------------------------------

\* The characters of names and paths, in code point order.
CodePoints ==
    <<"-", ".", "/", "0", "1", "2", "3", "4", "5", "6", "7", "8", "9",
      "A", "B", "C", "D", "E", "F", "G", "H", "I", "J", "K", "L", "M",
      "N", "O", "P", "Q", "R", "S", "T", "U", "V", "W", "X", "Y", "Z", "_",
      "a", "b", "c", "d", "e", "f", "g", "h", "i", "j", "k", "l", "m",
      "n", "o", "p", "q", "r", "s", "t", "u", "v", "w", "x", "y", "z">>
ord(c) == CHOOSE k \in 1..Len(CodePoints) : CodePoints[k] = c

\* a < b for Python strings: by the first differing character, else by length.
str_lt(a, b) ==
    LET d == {k \in 1..Len(a) : k <= Len(b) /\ a[k] # b[k]}
    IN  IF d = {} THEN Len(a) < Len(b)
        ELSE ord(a[CHOOSE k \in d : \A m \in d : k <= m])
                 < ord(b[CHOOSE k \in d : \A m \in d : k <= m])

\* x put into the sorted sequence ys, after the elements smaller than x.
insort(x, ys) ==
    SubSeq(ys, 1, Cardinality({i \in 1..Len(ys) : str_lt(ys[i], x)}))
        \o <<x>>
        \o SubSeq(ys, Cardinality({i \in 1..Len(ys) : str_lt(ys[i], x)}) + 1, Len(ys))

\* sorted(xs) for a sequence of strings.
RECURSIVE sorted(_)
sorted(xs) == IF xs = <<>> THEN <<>> ELSE insort(Head(xs), sorted(Tail(xs)))

\* sorted(d.keys()) for a set of distinct strings.
RECURSIVE sorted_keys(_)
sorted_keys(keys) ==
    IF keys = {} THEN <<>>
    ELSE sorted_keys(keys \ {CHOOSE x \in keys : \A y \in keys : ~str_lt(x, y)})
             \o <<CHOOSE x \in keys : \A y \in keys : ~str_lt(x, y)>>

\* s.endswith(suffix)
endswith(s, suffix) ==
    Len(s) >= Len(suffix) /\ SubSeq(s, Len(s) - Len(suffix) + 1, Len(s)) = suffix

\* os.path.isabs, os.path.join and os.path.dirname on POSIX paths.
isabs(path) == Len(path) > 0 /\ path[1] = "/"
path_join(a, b) ==
    IF isabs(b) THEN b
    ELSE IF a = <<>> \/ a[Len(a)] = "/" THEN a \o b
    ELSE a \o <<"/">> \o b
dirname(path) ==
    IF LastIndex(path, "/") = 0 THEN <<>>
    ELSE IF LastIndex(path, "/") = 1 THEN <<"/">>
    ELSE SubSeq(path, 1, LastIndex(path, "/") - 1)

\* A dict is a function from its keys; {} and d.update(a).
EmptyDict == [k \in {} |-> None]
dict_update(d, a) ==
    [k \in DOMAIN d \cup DOMAIN a |-> IF k \in DOMAIN a THEN a[k] ELSE d[k]]

\* Class attributes, lines 34-36.
INCLUDE_DIR_NAME == DSN_D
DIRECTIVES == {K_includedir}

\* ------------------------------------------------------------------------
\* DsnAliases: the include directory
\* ------------------------------------------------------------------------

\* os.path.isdir(path): one directory is modelled, at DsnDirPath.
isdir(path) == path = DsnDirPath /\ fs.exists

\* _get_include_dir, lines 64-95.
config_dir ==
    IF Truthy(config.filename) THEN dirname(config.filename) ELSE None
includedir ==
    IF K_includedir \in DOMAIN config.alias_dsn THEN config.alias_dsn[K_includedir]
    ELSE None
get_include_dir ==
    IF Truthy(include_dir) THEN include_dir
    ELSE IF Truthy(includedir)
    THEN (IF Truthy(config_dir) /\ ~isabs(includedir)
          THEN path_join(config_dir, includedir) ELSE includedir)
    ELSE IF Truthy(config_dir) THEN path_join(config_dir, INCLUDE_DIR_NAME)
    ELSE None

\* os.listdir: the names present, in an order the file system chooses.
Present(dir) == {f \in DOMAIN dir.entries : dir.entries[f].kind # "absent"}
Listings ==
    {l \in [1..Cardinality(Present(fs)) -> Present(fs)] :
        \A i, k \in 1..Cardinality(Present(fs)) : i # k => l[i] # l[k]}

\* Lines 136-158, for one file: the aliases it contributes. ConfigObj raising
\* (a file that does not parse) contributes nothing; a non-empty [alias_dsn]
\* section is taken, else the top-level scalar entries.
load_aliases_from_file(entry) ==
    IF ~entry.parse_ok THEN EmptyDict
    ELSE IF DOMAIN entry.section # {} THEN entry.section
    ELSE entry.top

\* Lines 122-124: the files merged one after the other into the dict.
RECURSIVE load_files(_, _)
load_files(files, aliases) ==
    IF files = <<>> THEN aliases
    ELSE load_files(Tail(files),
                    dict_update(aliases, load_aliases_from_file(fs.entries[Head(files)])))

\* Lines 113-117: the .conf regular files of a listing.
conf_files(listing) ==
    SelectSeq(listing, LAMBDA f : endswith(f, DOT_CONF) /\ fs.entries[f].kind = "file")

\* A plausible slip: the files merged in listing order.
load_included_aliases_unsorted(listing, aliases) ==
    IF ~Truthy(get_include_dir) THEN aliases
    ELSE IF ~isdir(get_include_dir) THEN aliases
    ELSE load_files(conf_files(listing), aliases)

\* _load_included_aliases, lines 97-124: _included_aliases after the call,
\* given the dict before it and the order os.listdir answers in.
load_included_aliases(listing, aliases) ==
    IF ~Truthy(get_include_dir) THEN aliases
    ELSE IF ~isdir(get_include_dir) THEN aliases
    ELSE load_files(sorted(conf_files(listing)), aliases)

\* A plausible slip: reload_includes without resetting the dict.
reload_includes_keeping(listing) == load_included_aliases(listing, included_aliases)

\* reload_includes, lines 230-237 (and __init__, lines 48-49): the dict is
\* reset, then loaded.
reload_includes(listing) == load_included_aliases(listing, EmptyDict)

\* ------------------------------------------------------------------------
\* DsnAliases: accessors
\* ------------------------------------------------------------------------

\* config.get("alias_dsn", {}) without the directives (lines 167-168, 208-209).
main_aliases ==
    [k \in DOMAIN config.alias_dsn \ DIRECTIVES |-> config.alias_dsn[k]]

\* A plausible slip: the included aliases laid over the main ones.
get_all_includes_win == dict_update(main_aliases, included_aliases)

\* get_all(), lines 199-211
get_all == dict_update(included_aliases, main_aliases)

\* list(), lines 160-174
list == sorted_keys(DOMAIN dict_update(included_aliases, main_aliases))

\* get(name), lines 176-197
get(name) ==
    IF name \in DIRECTIVES THEN None
    ELSE IF name \in DOMAIN config.alias_dsn THEN config.alias_dsn[name]
    ELSE IF name \in DOMAIN included_aliases THEN included_aliases[name]
    ELSE None

\* get_source(name), lines 213-228 ("None" for None)
get_source(name) ==
    IF name \in DOMAIN config.alias_dsn THEN "config"
    ELSE IF name \in DOMAIN included_aliases THEN "include"
    ELSE "None"

\* __contains__(name), lines 243-245
dsn_contains(name) == get(name) # None

\* __getitem__(name), lines 247-252: the value, or KeyError raised.
dsn_getitem(name) ==
    IF get(name) = None THEN [raised |-> "KeyError", value |-> None]
    ELSE [raised |-> "none", value |-> get(name)]

\* ------------------------------------------------------------------------
\* DsnAliases: the instance and the directory over time
\* ------------------------------------------------------------------------

\* The directory as a load finds it: the directory when the include path
\* resolves to it and it exists, else nothing.
NoDirectory == [exists |-> FALSE, entries |-> [f \in FileNames |-> NoEntry]]
directory_loaded ==
    IF Truthy(get_include_dir) /\ isdir(get_include_dir) THEN fs ELSE NoDirectory

\* No DsnAliases instance: the state of the processes that build none.
NoDsnAliases ==
    /\ config = [filename |-> None, alias_dsn |-> EmptyDict]
    /\ include_dir = None
    /\ included_aliases = EmptyDict
    /\ fs = NoDirectory
    /\ loaded = NoDirectory

\* A file is created or rewritten in the directory.
WriteFile(f, entry) ==
    /\ fs.exists
    /\ entry # NoEntry
    /\ fs.entries[f] # entry
    /\ fs' = [fs EXCEPT !.entries[f] = entry]
    /\ UNCHANGED <<config, include_dir, included_aliases, loaded, tunnel_vars>>

\* A file is removed from the directory.
RemoveFile(f) ==
    /\ fs.exists
    /\ fs.entries[f] # NoEntry
    /\ fs' = [fs EXCEPT !.entries[f] = NoEntry]
    /\ UNCHANGED <<config, include_dir, included_aliases, loaded, tunnel_vars>>

\* The directory is removed with what it holds, or created empty.
RemoveDir ==
    /\ fs.exists
    /\ fs' = NoDirectory
    /\ UNCHANGED <<config, include_dir, included_aliases, loaded, tunnel_vars>>
MakeDir ==
    /\ ~fs.exists
    /\ fs' = [NoDirectory EXCEPT !.exists = TRUE]
    /\ UNCHANGED <<config, include_dir, included_aliases, loaded, tunnel_vars>>

\* dsn.reload_includes()
ReloadIncludes ==
    /\ \E listing \in Listings : included_aliases' = reload_includes(listing)
    /\ loaded' = directory_loaded
    /\ UNCHANGED <<config, include_dir, fs, tunnel_vars>>

\* ------------------------------------------------------------------------
\* SSHTunnelManager.find_tunnel_url
\* ------------------------------------------------------------------------

\* A plausible slip: the last matching rule instead of the first.
last_match(rules, candidate) ==
    LET hits == {i \in 1..Len(rules) : re_fullmatch(rules[i].pattern, candidate)}
    IN  IF hits = {} THEN 0 ELSE CHOOSE i \in hits : \A k \in hits : k <= i

\* A plausible slip: re.match in the loop, so a pattern that matches a
\* prefix of the candidate selects the rule.
first_prefix_match(rules, candidate) ==
    LET hits == {i \in 1..Len(rules) : re_match(rules[i].pattern, candidate)}
    IN  IF hits = {} THEN 0 ELSE CHOOSE i \in hits : \A k \in hits : i <= k

\* The for loop over dict.items(): the index of the first rule, in insertion
\* order, whose pattern fully matches the candidate; 0 when the loop ends
\* without returning.
first_match(rules, candidate) ==
    LET hits == {i \in 1..Len(rules) : re_fullmatch(rules[i].pattern, candidate)}
    IN  IF hits = {} THEN 0 ELSE CHOOSE i \in hits : \A k \in hits : i <= k

\* A plausible slip: the host rules consulted before the alias rules.
match_rules_host_first(host, dsn_alias) ==
    LET a == IF Truthy(dsn_alias) /\ Len(dsn_ssh_tunnel_config) > 0
             THEN first_match(dsn_ssh_tunnel_config, dsn_alias) ELSE 0
        h == IF Truthy(host) /\ Len(ssh_tunnel_config) > 0
             THEN first_match(ssh_tunnel_config, host) ELSE 0
    IN  IF h # 0 THEN ssh_tunnel_config[h].url
        ELSE IF a # 0 THEN dsn_ssh_tunnel_config[a].url
        ELSE None

\* Lines 245-269: the alias (DSN) rules, then the host rules, then None.
\* Each set is skipped when its candidate is None or "" or the set is empty.
match_rules(host, dsn_alias) ==
    LET a == IF Truthy(dsn_alias) /\ Len(dsn_ssh_tunnel_config) > 0
             THEN first_match(dsn_ssh_tunnel_config, dsn_alias) ELSE 0
        h == IF Truthy(host) /\ Len(ssh_tunnel_config) > 0
             THEN first_match(ssh_tunnel_config, host) ELSE 0
    IN  IF a # 0 THEN dsn_ssh_tunnel_config[a].url
        ELSE IF h # 0 THEN ssh_tunnel_config[h].url
        ELSE None

\* A plausible slip: the explicit URL used only when no rule matches.
find_tunnel_url_rules_first(host, dsn_alias) ==
    IF match_rules(host, dsn_alias) # None THEN match_rules(host, dsn_alias)
    ELSE IF Truthy(ssh_tunnel_url) THEN ssh_tunnel_url
    ELSE None

\* Lines 241-243: an explicit URL short-circuits the rules.
find_tunnel_url(host, dsn_alias) ==
    IF Truthy(ssh_tunnel_url) THEN ssh_tunnel_url
    ELSE match_rules(host, dsn_alias)

\* ------------------------------------------------------------------------
\* start_tunnel, lines 298-339: the connection parameters of the bastion
\* ------------------------------------------------------------------------

\* getpass.getuser()
OsUser == <<"o", "s", "u", "s", "e", "r">>
\* os.path.expanduser("~")
HomeDir == <<"/", "h", "o", "m", "e", "/", "o", "s", "u", "s", "e", "r">>

\* os.path.expanduser(path)
expanduser(path) ==
    IF Len(path) > 0 /\ path[1] = "~" /\ (Len(path) = 1 \/ path[2] = "/")
    THEN HomeDir \o Tail(path)
    ELSE path

\* What SSHConfig.lookup(hostname) answers: the options of ssh_config for
\* the host it has an entry for, no option for any other host.
NoHostConfig ==
    [hostname |-> None, user |-> None, port |-> None, proxycommand |-> None,
     identityfile |-> <<>>]
lookup(hostname) ==
    IF hostname = ssh_config.host THEN ssh_config.options ELSE NoHostConfig

\* A plausible slip: the identity files are passed on without looking for
\* them on disk.
all_files(paths) == [k \in 1..Len(paths) |-> expanduser(paths[k])]

\* [f for f in xs if os.path.isfile(f)] over the expanded paths, order kept.
RECURSIVE existing_files(_)
existing_files(paths) ==
    IF paths = <<>> THEN <<>>
    ELSE (IF expanduser(Head(paths)) \in ssh_config.files
          THEN <<expanduser(Head(paths))>> ELSE <<>>)
             \o existing_files(Tail(paths))

\* A plausible slip: the user of ~/.ssh/config preferred to the one of the
\* specification.
connection_params_config_user(info, hc) ==
    LET no_port  == info.port \in {NoPort, 0}
        parsed   == info.hostname # None /\ ssh_config.is_file /\ ssh_config.parse_ok
        bad_port == parsed /\ no_port /\ hc.port # None /\ ~IsDigits(hc.port)
        done     == parsed /\ ~bad_port
    IN  [error         |-> IF info.port = BadPort THEN "ValueError" ELSE "none",
         ssh_hostname  |-> IF parsed /\ hc.hostname # None THEN hc.hostname
                           ELSE info.hostname,
         ssh_port      |-> IF done /\ no_port /\ hc.port # None THEN ToInt(hc.port)
                           ELSE IF no_port THEN 22 ELSE info.port,
         ssh_username  |-> IF parsed /\ Truthy(hc.user) THEN hc.user
                           ELSE IF Truthy(info.username) THEN info.username
                           ELSE OsUser,
         ssh_password  |-> info.password,
         ssh_proxy     |-> IF done /\ Truthy(hc.proxycommand) THEN hc.proxycommand
                           ELSE None,
         key_filenames |-> IF done THEN existing_files(hc.identityfile) ELSE <<>>,
         warned        |-> info.hostname # None /\ ssh_config.is_file /\ ~done]

\* A plausible slip: the port of ~/.ssh/config preferred to the one of the
\* specification.
connection_params_config_port(info, hc) ==
    LET no_port  == info.port \in {NoPort, 0}
        parsed   == info.hostname # None /\ ssh_config.is_file /\ ssh_config.parse_ok
        bad_port == parsed /\ hc.port # None /\ ~IsDigits(hc.port)
        done     == parsed /\ ~bad_port
    IN  [error         |-> IF info.port = BadPort THEN "ValueError" ELSE "none",
         ssh_hostname  |-> IF parsed /\ hc.hostname # None THEN hc.hostname
                           ELSE info.hostname,
         ssh_port      |-> IF done /\ hc.port # None THEN ToInt(hc.port)
                           ELSE IF no_port THEN 22 ELSE info.port,
         ssh_username  |-> IF Truthy(info.username) THEN info.username
                           ELSE IF parsed /\ Truthy(hc.user) THEN hc.user
                           ELSE OsUser,
         ssh_password  |-> info.password,
         ssh_proxy     |-> IF done /\ Truthy(hc.proxycommand) THEN hc.proxycommand
                           ELSE None,
         key_filenames |-> IF done THEN existing_files(hc.identityfile) ELSE <<>>,
         warned        |-> info.hostname # None /\ ssh_config.is_file /\ ~done]

\* Lines 306-339, given the parsed specification (info) and the options
\* ~/.ssh/config has for its host (hc). The try block of lines 317-336 stops
\* at the first statement that raises (the parse, or int() of a port option
\* that is not a number) and keeps what the statements before it assigned.
\* error is "ValueError" when tunnel_info.port raises (line 304, outside
\* every try).
connection_params(info, hc) ==
    LET no_port  == info.port \in {NoPort, 0}
        parsed   == info.hostname # None /\ ssh_config.is_file /\ ssh_config.parse_ok
        bad_port == parsed /\ no_port /\ hc.port # None /\ ~IsDigits(hc.port)
        done     == parsed /\ ~bad_port
    IN  [error         |-> IF info.port = BadPort THEN "ValueError" ELSE "none",
         ssh_hostname  |-> IF parsed /\ hc.hostname # None THEN hc.hostname
                           ELSE info.hostname,
         ssh_port      |-> IF done /\ no_port /\ hc.port # None THEN ToInt(hc.port)
                           ELSE IF no_port THEN 22 ELSE info.port,
         ssh_username  |-> IF Truthy(info.username) THEN info.username
                           ELSE IF parsed /\ Truthy(hc.user) THEN hc.user
                           ELSE OsUser,
         ssh_password  |-> info.password,
         ssh_proxy     |-> IF done /\ Truthy(hc.proxycommand) THEN hc.proxycommand
                           ELSE None,
         key_filenames |-> IF done THEN existing_files(hc.identityfile) ELSE <<>>,
         warned        |-> info.hostname # None /\ ssh_config.is_file /\ ~done]

\* Lines 302-305 and 321: the parsed specification and the options of
\* ~/.ssh/config for its host.
resolve_parsed(info) == connection_params(info, lookup(info.hostname))

\* Lines 298-339: the connection parameters of a tunnel specification.
resolve(tunnel_url) == resolve_parsed(urlparse(with_scheme(tunnel_url)))

\* ------------------------------------------------------------------------
\* _NativeSSHTunnel
\* ------------------------------------------------------------------------

\* __init__, lines 88-117. origin is a ghost field: the (host, port)
\* of the start_tunnel call that constructed the session.
\* client, server and thread are the attributes _ssh_client, _server and
\* _server_thread ("None" or "held"); client_state, server_state and port are
\* the state of the objects behind them. policy is the missing-host-key
\* policy class set on the client and connect_kwargs the keyword arguments
\* of its connect call. starts counts the start() calls; connects, shutdowns
\* and closes count the connect and close calls on the client, and the
\* shutdown calls on the listener, that the latest start() created.
\* stop_waiting: a stop() call is inside _server.shutdown() and has not
\* returned. stop_called: stop() has been called on the session. teardown:
\* the statements with an effect that the latest stop() call has executed,
\* in the order it executed them. listener: the start() call (its number)
\* that created the latest listener, 0 when none was created.
NoKwargs ==
    [names |-> {}, hostname |-> None, port |-> NoPort, username |-> None,
     allow_agent |-> TRUE, look_for_keys |-> TRUE, compress |-> TRUE, timeout |-> 0,
     key_filename |-> <<>>, password |-> None, sock |-> None]

NativeSSHTunnel(r, remote_host, remote_port, origin) ==
    [ssh_hostname    |-> r.ssh_hostname,
     ssh_port        |-> r.ssh_port,
     remote_host     |-> remote_host,
     remote_port     |-> remote_port,
     ssh_username    |-> r.ssh_username,
     ssh_password    |-> r.ssh_password,
     ssh_proxy       |-> r.ssh_proxy,
     allow_agent     |-> allow_agent,
     key_filenames   |-> r.key_filenames,
     host_key_policy |-> host_key_policy,
     client          |-> "None",
     client_state    |-> "none",
     server          |-> "None",
     server_state    |-> "none",
     port            |-> NoPort,
     thread          |-> "None",
     handler         |-> [remote_host |-> None, remote_port |-> NoPort],
     is_active       |-> FALSE,
     policy          |-> "none",
     connect_kwargs  |-> NoKwargs,
     starts          |-> 0,
     connects        |-> 0,
     shutdowns       |-> 0,
     closes          |-> 0,
     stop_waiting    |-> FALSE,
     stop_called     |-> FALSE,
     teardown        |-> <<>>,
     listener        |-> 0,
     origin          |-> origin]

\* The steps at which start() can raise, in the order of the code.
ConnectFailures == {"connect_refused", "auth_failed", "host_key_rejected"}
StartOutcomes == {"ok"} \cup ConnectFailures \cup {"bind_failed", "thread_failed"}

\* A plausible slip: the handler class bound to the bastion's address.
BoundForwardHandler_bastion(s) ==
    [remote_host |-> s.ssh_hostname, remote_port |-> s.ssh_port]

\* Lines 155-164: the class attributes of the handler class of a session.
BoundForwardHandler(s) ==
    [remote_host |-> s.remote_host, remote_port |-> s.remote_port]

\* Lines 82-86 and 133: HOST_KEY_POLICIES.get(host_key_policy, AutoAddPolicy),
\* an exact lookup of the session's host_key_policy string.
HOST_KEY_POLICIES ==
    <<[key |-> <<"a", "u", "t", "o", "-", "a", "d", "d">>, cls |-> "AutoAddPolicy"],
      [key |-> <<"w", "a", "r", "n">>,                     cls |-> "WarningPolicy"],
      [key |-> <<"r", "e", "j", "e", "c", "t">>,           cls |-> "RejectPolicy"]>>

policy_cls(name) ==
    IF \E i \in 1..Len(HOST_KEY_POLICIES) : HOST_KEY_POLICIES[i].key = name
    THEN HOST_KEY_POLICIES[CHOOSE i \in 1..Len(HOST_KEY_POLICIES) :
                               HOST_KEY_POLICIES[i].key = name].cls
    ELSE "AutoAddPolicy"

\* A plausible slip: connect called with paramiko's default look_for_keys.
connect_kwargs_default_keys(s) ==
    [names |-> {"hostname", "port", "username", "allow_agent", "compress", "timeout"}
                 \cup (IF s.key_filenames # <<>> THEN {"key_filename"} ELSE {})
                 \cup (IF Truthy(s.ssh_password) THEN {"password"} ELSE {})
                 \cup (IF Truthy(s.ssh_proxy) THEN {"sock"} ELSE {}),
     hostname |-> s.ssh_hostname, port |-> s.ssh_port, username |-> s.ssh_username,
     allow_agent |-> s.allow_agent, look_for_keys |-> TRUE, compress |-> FALSE,
     timeout |-> 10,
     key_filename |-> s.key_filenames,
     password |-> IF Truthy(s.ssh_password) THEN s.ssh_password ELSE None,
     sock |-> IF Truthy(s.ssh_proxy) THEN s.ssh_proxy ELSE None]

\* Lines 136-150: the keyword arguments of _ssh_client.connect. names is the
\* set of keywords passed; key_filename, password and sock are passed only
\* when the session's value is truthy.
connect_kwargs(s) ==
    [names |-> {"hostname", "port", "username", "allow_agent", "look_for_keys",
                "compress", "timeout"}
                 \cup (IF s.key_filenames # <<>> THEN {"key_filename"} ELSE {})
                 \cup (IF Truthy(s.ssh_password) THEN {"password"} ELSE {})
                 \cup (IF Truthy(s.ssh_proxy) THEN {"sock"} ELSE {}),
     hostname |-> s.ssh_hostname, port |-> s.ssh_port, username |-> s.ssh_username,
     allow_agent |-> s.allow_agent, look_for_keys |-> FALSE, compress |-> FALSE,
     timeout |-> 10,
     key_filename |-> s.key_filenames,
     password |-> IF Truthy(s.ssh_password) THEN s.ssh_password ELSE None,
     sock |-> IF Truthy(s.ssh_proxy) THEN s.ssh_proxy ELSE None]

\* A plausible slip: a failed connect is tried a second time.
connecting_retry(s) ==
    [s EXCEPT !.client = "held", !.client_state = "created",
              !.policy = policy_cls(s.host_key_policy),
              !.connect_kwargs = connect_kwargs(s),
              !.starts = @ + 1, !.connects = 2, !.closes = 0, !.teardown = <<>>]

\* Lines 131-152: a new client is created, the host-key policy is set and
\* connect is called once.
connecting(s) ==
    [s EXCEPT !.client = "held", !.client_state = "created",
              !.policy = policy_cls(s.host_key_policy),
              !.connect_kwargs = connect_kwargs(s),
              !.starts = @ + 1, !.connects = 1, !.closes = 0, !.teardown = <<>>]

\* A plausible slip: start() returns with is_active set although the accept
\* thread was never started.
start_no_thread(s, outcome, bind_port) ==
    IF outcome \in ConnectFailures
    THEN connecting(s)
    ELSE [connecting(s) EXCEPT !.client_state = "connected",
                   !.handler = BoundForwardHandler(s),
                   !.server = "held", !.server_state = "bound", !.shutdowns = 0,
                   !.port = bind_port, !.is_active = TRUE, !.listener = s.starts + 1]

\* A plausible slip: _is_active is set as soon as connect has returned,
\* before the listener is created.
start_active_early(s, outcome, bind_port) ==
    IF outcome \in ConnectFailures
    THEN connecting(s)
    ELSE IF outcome = "bind_failed"
    THEN [connecting(s) EXCEPT !.client_state = "connected",
                   !.handler = BoundForwardHandler(s), !.is_active = TRUE]
    ELSE [connecting(s) EXCEPT !.client_state = "connected",
                   !.handler = BoundForwardHandler(s),
                   !.server = "held",
                   !.server_state = IF outcome = "ok" THEN "serving" ELSE "bound",
                   !.shutdowns = 0, !.port = bind_port, !.thread = "held",
                   !.is_active = TRUE, !.listener = s.starts + 1]

\* start(), lines 129-174, run until it returns (outcome "ok") or raises.
\*   connect raises: the client is created and held, nothing else is.
\*   the bind raises: the client stays connected, no server is held.
\*   Thread.start raises: the server is bound and held, no accept loop runs.
start(s, outcome, bind_port) ==
    IF outcome \in ConnectFailures
    THEN connecting(s)
    ELSE IF outcome = "bind_failed"
    THEN [connecting(s) EXCEPT !.client_state = "connected",
                   !.handler = BoundForwardHandler(s)]
    ELSE IF outcome = "thread_failed"
    THEN [connecting(s) EXCEPT !.client_state = "connected",
                   !.handler = BoundForwardHandler(s),
                   !.server = "held", !.server_state = "bound", !.shutdowns = 0,
                   !.port = bind_port, !.thread = "held", !.listener = s.starts + 1]
    ELSE [connecting(s) EXCEPT !.client_state = "connected",
                   !.handler = BoundForwardHandler(s),
                   !.server = "held", !.server_state = "serving", !.shutdowns = 0,
                   !.port = bind_port, !.thread = "held", !.is_active = TRUE,
                   !.listener = s.starts + 1]

\* local_bind_port, lines 123-127
local_bind_port(s) == IF s.server = "held" THEN s.port ELSE NoPort

\* A plausible slip: stop() drops the SSH client without closing it.
stop_without_close(s) ==
    IF s.server = "held" /\ s.server_state # "serving"
    THEN [s EXCEPT !.is_active = FALSE, !.shutdowns = @ + 1, !.stop_waiting = TRUE,
                   !.stop_called = TRUE,
                   !.teardown = <<"is_active = False", "shutdown">>]
    ELSE [s EXCEPT !.is_active    = FALSE,
                   !.stop_called  = TRUE,
                   !.teardown     = <<"is_active = False">>
                                      \o (IF s.server = "held" THEN <<"shutdown">> ELSE <<>>),
                   !.server_state = IF s.server = "held" THEN "shutdown" ELSE @,
                   !.shutdowns    = IF s.server = "held" THEN @ + 1 ELSE @,
                   !.server       = "None",
                   !.client       = "None",
                   !.thread       = "None"]

\* A plausible slip: the SSH client is closed before the listener is shut
\* down.
stop_client_first(s) ==
    IF s.server = "held" /\ s.server_state # "serving"
    THEN [s EXCEPT !.is_active = FALSE, !.shutdowns = @ + 1, !.stop_waiting = TRUE,
                   !.stop_called = TRUE,
                   !.client_state = IF s.client = "held" THEN "closed" ELSE @,
                   !.closes = IF s.client = "held" THEN @ + 1 ELSE @,
                   !.client = "None",
                   !.teardown = <<"is_active = False">>
                                  \o (IF s.client = "held" THEN <<"close">> ELSE <<>>)
                                  \o <<"shutdown">>]
    ELSE [s EXCEPT !.is_active    = FALSE,
                   !.stop_called  = TRUE,
                   !.teardown     = <<"is_active = False">>
                                      \o (IF s.client = "held" THEN <<"close">> ELSE <<>>)
                                      \o (IF s.server = "held" THEN <<"shutdown">> ELSE <<>>),
                   !.server_state = IF s.server = "held" THEN "shutdown" ELSE @,
                   !.shutdowns    = IF s.server = "held" THEN @ + 1 ELSE @,
                   !.server       = "None",
                   !.client_state = IF s.client = "held" THEN "closed" ELSE @,
                   !.closes       = IF s.client = "held" THEN @ + 1 ELSE @,
                   !.client       = "None",
                   !.thread       = "None"]

\* stop(), lines 183-192. is_active is cleared first. _server.shutdown() asks
\* the accept loop to end and waits until serve_forever has returned: with a
\* listener whose serve_forever never ran (Thread.start raised in start())
\* the wait never ends and stop() does not return. Otherwise the accept loop
\* ends, _ssh_client.close() closes the SSH connection and the three
\* attributes are reset to None.
stop(s) ==
    IF s.server = "held" /\ s.server_state # "serving"
    THEN [s EXCEPT !.is_active = FALSE, !.shutdowns = @ + 1, !.stop_waiting = TRUE,
                   !.stop_called = TRUE,
                   !.teardown = <<"is_active = False", "shutdown">>]
    ELSE [s EXCEPT !.is_active    = FALSE,
                   !.stop_called  = TRUE,
                   !.teardown     = <<"is_active = False">>
                                      \o (IF s.server = "held" THEN <<"shutdown">> ELSE <<>>)
                                      \o (IF s.client = "held" THEN <<"close">> ELSE <<>>),
                   !.server_state = IF s.server = "held" THEN "shutdown" ELSE @,
                   !.shutdowns    = IF s.server = "held" THEN @ + 1 ELSE @,
                   !.server       = "None",
                   !.client_state = IF s.client = "held" THEN "closed" ELSE @,
                   !.closes       = IF s.client = "held" THEN @ + 1 ELSE @,
                   !.client       = "None",
                   !.thread       = "None"]

\* ------------------------------------------------------------------------
\* SSHTunnelManager.start_tunnel and stop_tunnel
\* ------------------------------------------------------------------------

MaxSessions == 2
MaxConns == 2

NoAddr == <<None, NoPort>>

\* No find_tunnel_url call is pending.
NoQuery == [host |-> None, dsn_alias |-> None, done |-> TRUE, result |-> None]

NoCall ==
    [op |-> "none", host |-> None, port |-> NoPort, dsn_alias |-> None,
     outcome |-> "none", ret |-> NoAddr, session |-> 0, failed_at |-> "none"]

Running == proc.state = "running"

\* A plausible slip: stop_tunnel forgets to reset self.tunnel.
stopped_keeping_tunnel ==
    IF tunnel # 0 /\ sessions[tunnel].is_active
    THEN [tunnel |-> tunnel, sessions |-> [sessions EXCEPT ![tunnel] = stop(@)]]
    ELSE [tunnel |-> tunnel, sessions |-> sessions]

\* stop_tunnel(), lines 380-385: the manager's tunnel and sessions after it.
stopped ==
    IF tunnel # 0 /\ sessions[tunnel].is_active
    THEN [tunnel |-> 0, sessions |-> [sessions EXCEPT ![tunnel] = stop(@)]]
    ELSE [tunnel |-> tunnel, sessions |-> sessions]

\* The atexit hooks run at interpreter exit: stop_tunnel, once per
\* registration, on the manager as it is then (tun, sess).
after_atexit(tun, sess) ==
    IF atexit_hooks > 0 /\ tun # 0 /\ sess[tun].is_active
    THEN [tunnel |-> 0, sessions |-> [sess EXCEPT ![tun] = stop(@)]]
    ELSE [tunnel |-> tun, sessions |-> sess]

\* A plausible slip: a failed start falls back to the direct address.
start_result_fallback(host, port, s, outcome) ==
    IF outcome = "ok" /\ s.is_active
    THEN [outcome |-> "returned", ret |-> <<S_loopback, local_bind_port(s)>>]
    ELSE [outcome |-> "returned", ret |-> <<host, port>>]

\* Lines 361-378: what start_tunnel does once tunnel.start() returned or
\* raised: sys.exit(1) when it raised or the tunnel is not active, else the
\* local address.
start_result(host, port, s, outcome) ==
    IF outcome = "ok" /\ s.is_active
    THEN [outcome |-> "returned", ret |-> <<S_loopback, local_bind_port(s)>>]
    ELSE [outcome |-> "exit", ret |-> NoAddr]

\* Local ports the OS may assign to a new listener: not one a listener of
\* this process is bound to.
EphemeralPorts == {49152 + k : k \in 0..(MaxSessions - 1)}
FreePorts ==
    EphemeralPorts \ {sessions[i].port : i \in
        {k \in 1..Len(sessions) : sessions[k].server_state \in {"bound", "serving"}}}

\* start_tunnel(host, port, dsn_alias), lines 271-378, as one call:
\*   no specification found: (host, port) is returned;
\*   the specification's port is malformed: ValueError leaves the call;
\*   otherwise a session is constructed and started: on success it becomes
\*   self.tunnel, stop_tunnel is registered with atexit and the local
\*   address is returned; on failure a diagnostic is printed and the process
\*   exits with status 1 (the atexit hooks run).
start_tunnel(host, port, dsn_alias) ==
    /\ Running
    /\ \E url \in {find_tunnel_url(host, dsn_alias)},
          call \in {[NoCall EXCEPT !.op = "start_tunnel", !.host = host,
                                   !.port = port, !.dsn_alias = dsn_alias]} :
         IF ~Truthy(url)
         THEN /\ last_call' = [call EXCEPT !.outcome = "returned",
                                           !.ret = <<host, port>>]
              /\ UNCHANGED <<tunnel, sessions, atexit_hooks, proc>>
         ELSE \E r \in {resolve(url)} :
           IF r.error # "none"
           THEN /\ last_call' = [call EXCEPT !.outcome = "raised"]
                /\ UNCHANGED <<tunnel, sessions, atexit_hooks, proc>>
           ELSE /\ Len(sessions) < MaxSessions
                /\ \E outcome \in StartOutcomes, bind_port \in FreePorts :
                     /\ r.ssh_hostname = None => outcome \in ConnectFailures
                     /\ outcome \in ConnectFailures \cup {"bind_failed"}
                           => bind_port = CHOOSE q \in FreePorts : TRUE
                     /\ \E s \in {start(NativeSSHTunnel(r, host, port,
                                            [host |-> host, port |-> port]),
                                        outcome, bind_port)} :
                        \E res \in {start_result(host, port, s, outcome)},
                           fin \in {after_atexit(tunnel, Append(sessions, s))} :
                          /\ last_call' = [call EXCEPT !.outcome = res.outcome,
                                                       !.ret = res.ret,
                                                       !.session = Len(sessions) + 1,
                                                       !.failed_at = outcome]
                          /\ IF res.outcome = "exit"
                             THEN /\ proc' = [state |-> "exited", status |-> 1,
                                              diagnostics |-> proc.diagnostics + 1]
                                  /\ tunnel' = fin.tunnel
                                  /\ sessions' = fin.sessions
                                  /\ UNCHANGED atexit_hooks
                             ELSE /\ tunnel' = Len(sessions) + 1
                                  /\ sessions' = Append(sessions, s)
                                  /\ atexit_hooks' = atexit_hooks + 1
                                  /\ UNCHANGED proc
    /\ UNCHANGED <<dsn_vars, manager_vars, conns, ssh_config, query>>

\* stop_tunnel(), lines 380-385, as one call.
stop_tunnel ==
    /\ Running
    /\ tunnel' = stopped.tunnel
    /\ sessions' = stopped.sessions
    /\ last_call' = [NoCall EXCEPT !.op = "stop_tunnel", !.outcome = "returned",
                                   !.session = tunnel]
    /\ UNCHANGED <<dsn_vars, dump, manager_vars, conns, atexit_hooks, proc, ssh_config, query>>

\* The process ends normally: the atexit hooks run.
ProcessExit ==
    /\ Running
    /\ proc' = [proc EXCEPT !.state = "exited"]
    /\ tunnel' = after_atexit(tunnel, sessions).tunnel
    /\ sessions' = after_atexit(tunnel, sessions).sessions
    /\ UNCHANGED <<dsn_vars, dump, manager_vars, conns, atexit_hooks, ssh_config, last_call, query>>

\* ------------------------------------------------------------------------
\* The accept loop and _ForwardHandler.handle
\* ------------------------------------------------------------------------

NoDest == <<None, NoPort>>

\* The buffer size of both recv calls (lines 60 and 65).
BUFSIZE == 4096

\* The most recv calls that return data on one connection.
MaxReads == 2

\* The local variable `data` of handle when it holds nothing.
NoData == [dir |-> "none", off |-> 0, len |-> 0]

\* One direction of a forwarded connection: read counts the bytes handle has
\* read from the source, and sent lists the slices [off, len] of the
\* source's byte stream that handle has written to the destination, in the
\* order it wrote them.
NoTraffic == [read |-> 0, sent |-> <<>>]

\* A plausible slip: a handler is given a channel that is already open.
next_channel_shared ==
    IF \A k \in 1..Len(conns) : conns[k].chan = 0 THEN 1
    ELSE conns[CHOOSE k \in 1..Len(conns) : conns[k].chan # 0].chan

\* transport.open_channel returns a new channel object: chan is its
\* identity, different from that of every channel opened before.
next_channel == 1 + Cardinality({k \in 1..Len(conns) : conns[k].chan # 0})

\* serve_forever of session i accepts a local connection and hands it to a
\* new handler thread (lines 166-173). sock is the identity of the accepted
\* socket (self.request of the new handler), epoch tells which start() of
\* the session created the listener, and with it the transport the handler
\* class is bound to.
Accept(i) ==
    /\ Running
    /\ sessions[i].server_state = "serving"
    /\ Len(conns) < MaxConns
    /\ conns' = Append(conns, [session |-> i, epoch |-> sessions[i].starts,
                               pc |-> "open_channel", dest |-> NoDest,
                               channel |-> "none", request |-> "open", logged |-> 0,
                               sock |-> Len(conns) + 1, chan |-> 0, data |-> NoData,
                               up |-> NoTraffic, down |-> NoTraffic, recvs |-> 0])
    /\ UNCHANGED <<dsn_vars, dump, manager_vars, tunnel, sessions, atexit_hooks, proc, ssh_config,
                   last_call, query>>

\* The transport of the handler class of connection c is open: the SSH
\* client that the handler's start() connected has not been closed.
\* SSHClient.close() closes the transport and, with it, every channel opened
\* on it.
transport_open(c) ==
    /\ sessions[conns[c].session].client_state = "connected"
    /\ conns[c].epoch = sessions[conns[c].session].starts

\* The channel of connection c is open at both ends.
channel_open(c) == conns[c].channel = "open" /\ transport_open(c)

\* The handler threads of the latest listener of session i that have not
\* returned. Each holds the server object (it runs a method of it).
handlers_running(i) ==
    {c \in 1..Len(conns) : /\ conns[c].session = i
                           /\ conns[c].epoch = sessions[i].listener
                           /\ conns[c].pc # "done"}

\* The listening socket of the latest listener of session i. stop() shuts
\* the accept loop down and drops its reference to the server (lines
\* 187-188) but never calls server_close(): the socket stays open, and the
\* kernel goes on completing connections to it, until the server object is
\* released, which is when neither the session nor a running handler thread
\* holds it.
listener_socket(i) ==
    IF sessions[i].listener = 0 THEN "none"
    ELSE IF sessions[i].server = "held" \/ handlers_running(i) # {} THEN "listening"
    ELSE "closed"

\* A plausible slip: handle goes on to the relay loop without a channel.
channel_failed_relaying(conn, dest, outcome) ==
    [conn EXCEPT !.pc = "relay", !.dest = dest, !.channel = outcome, !.logged = 1]

\* Lines 46-52: open_channel raised or returned None. The error is logged,
\* handle returns and the server closes the request.
channel_failed(conn, dest, outcome) ==
    [conn EXCEPT !.pc = "done", !.dest = dest, !.channel = outcome,
                 !.request = "closed", !.logged = 1]

\* Lines 41-54: open_channel returned the channel chan.
channel_opened(conn, dest, chan) ==
    [conn EXCEPT !.pc = "relay", !.dest = dest, !.channel = "open", !.chan = chan]

\* handle(), lines 40-54: open_channel to the handler class's remote_host
\* and remote_port. It raises on a closed transport; on an open one it
\* returns a channel, raises, or returns None.
OpenChannel(c) ==
    /\ Running
    /\ conns[c].pc = "open_channel"
    /\ LET s == sessions[conns[c].session]
           dest == <<s.handler.remote_host, s.handler.remote_port>>
       IN  \E outcome \in (IF transport_open(c)
                           THEN {"opened", "raised", "rejected"} ELSE {"raised"}) :
             conns' = [conns EXCEPT ![c] =
                 IF outcome = "opened"
                 THEN channel_opened(@, dest, next_channel)
                 ELSE channel_failed(@, dest, outcome)]
    /\ UNCHANGED <<dsn_vars, dump, manager_vars, tunnel, sessions, atexit_hooks, proc, ssh_config,
                   last_call, query>>

\* A plausible slip: recv without a size limit.
recv_unlimited(avail, bufsize) == avail

\* sock.recv(bufsize) and channel.recv(bufsize) with avail > 0 bytes
\* waiting: the number of bytes returned.
recv(avail, bufsize) == IF avail < bufsize THEN avail ELSE bufsize

\* The numbers of bytes that may be waiting on a side that select reports
\* readable.
Arrivals == {1, 6000}

\* Lines 59-60 and 64-65: data = recv(4096) returned n > 0 bytes of the
\* source of direction dir, the bytes that follow those read before.
received(conn, dir, n) ==
    [conn EXCEPT !.pc = "sendall",
                 !.data = [dir |-> dir,
                           off |-> IF dir = "up" THEN conn.up.read ELSE conn.down.read,
                           len |-> n],
                 !.up.read = IF dir = "up" THEN @ + n ELSE @,
                 !.down.read = IF dir = "down" THEN @ + n ELSE @,
                 !.recvs = @ + 1]

\* Lines 63 and 68: sendall(data) has written the first n bytes of data to
\* the destination of its direction (all of them when it returned, fewer
\* when it raised).
sent(conn, n) ==
    LET slice == [off |-> conn.data.off, len |-> n]
    IN  [conn EXCEPT !.up.sent = IF conn.data.dir = "up" /\ n > 0
                                 THEN Append(@, slice) ELSE @,
                     !.down.sent = IF conn.data.dir = "down" /\ n > 0
                                   THEN Append(@, slice) ELSE @,
                     !.data = NoData]

\* A plausible slip: the local socket is left open when the relay ends.
end_relay_socket_open(conn) ==
    [conn EXCEPT !.pc = "done", !.channel = "closed"]

\* Lines 61-62, 66-67 and 69-72: the loop is left by break or by an
\* exception; channel.close() runs, handle returns and the server closes
\* the request.
end_relay(conn) ==
    [conn EXCEPT !.pc = "done", !.channel = "closed", !.request = "closed"]

\* handle(), lines 58-60 and 64-65: select reports a side readable and recv
\* returns data from it. The channel returns data only while it is open.
Recv(c) ==
    /\ Running
    /\ conns[c].pc = "relay"
    /\ conns[c].recvs < MaxReads
    /\ \E dir \in {"up", "down"}, avail \in Arrivals :
         /\ dir = "down" => channel_open(c)
         /\ conns' = [conns EXCEPT ![c] = received(@, dir, recv(avail, BUFSIZE))]
    /\ UNCHANGED <<dsn_vars, dump, manager_vars, tunnel, sessions, atexit_hooks, proc, ssh_config,
                   last_call, query>>

\* handle(), lines 63 and 68: sendall(data) returns. Data is sent to the
\* channel only while it is open.
SendAll(c) ==
    /\ Running
    /\ conns[c].pc = "sendall"
    /\ conns[c].data.dir = "up" => channel_open(c)
    /\ conns' = [conns EXCEPT ![c] = [sent(@, conns[c].data.len) EXCEPT !.pc = "relay"]]
    /\ UNCHANGED <<dsn_vars, dump, manager_vars, tunnel, sessions, atexit_hooks, proc, ssh_config,
                   last_call, query>>

\* handle(), lines 56-72: the relay loop ends. In the loop's select and
\* recv: a side is at end of stream (recv returns b"") or recv raises. In
\* sendall: it raises after writing none or some of data, but not all.
EndRelay(c) ==
    /\ Running
    /\ conns[c].pc \in {"relay", "sendall"}
    /\ \E partial \in {n \in {0, 1} : n = 0 \/ n < conns[c].data.len} :
         conns' = [conns EXCEPT ![c] = end_relay(sent(@, partial))]
    /\ UNCHANGED <<dsn_vars, dump, manager_vars, tunnel, sessions, atexit_hooks, proc, ssh_config,
                   last_call, query>>

\* ------------------------------------------------------------------------
\* The manager in its process
\* ------------------------------------------------------------------------

\* The (host, port, dsn_alias) a caller passes to start_tunnel.
CallArgs ==
    {[host |-> S_db_prod_com, port |-> 5432, dsn_alias |-> None],
     [host |-> S_localhost,   port |-> 5432, dsn_alias |-> S_production],
     [host |-> S_localhost,   port |-> 22,   dsn_alias |-> S_prod],
     [host |-> S_db_prod_com, port |-> 6432, dsn_alias |-> S_prod]}

P_host_rule == [pattern |-> P_db_prod_com, url |-> U_bastion]
P_alias_rule == [pattern |-> P_prod, url |-> U_ssh_user_jump]

\* ~/.ssh/config: absent, or with options for the host "jump". Its identity
\* files are in the order lookup() returns them: those of the host's own
\* entry, then those of a wildcard entry.
F_id_jump == <<"~", "/", ".", "s", "s", "h", "/", "i", "d", "_", "j", "u", "m", "p">>
F_id_missing == <<"~", "/", ".", "s", "s", "h", "/", "g", "o", "n", "e">>
F_id_all == <<"/", "k", "e", "y", "s", "/", "i", "d", "_", "a", "l", "l">>
NoSshConfig ==
    [is_file |-> FALSE, parse_ok |-> TRUE, host |-> None, options |-> NoHostConfig,
     files |-> {}]
JumpSshConfig ==
    [is_file |-> TRUE, parse_ok |-> TRUE, host |-> S_jump,
     options |-> [hostname |-> <<"j", "u", "m", "p", ".", "l", "a", "n">>,
                  user |-> <<"o", "p", "s">>,
                  port |-> <<"2", "2", "0", "2">>,
                  proxycommand |-> None,
                  identityfile |-> <<F_id_jump, F_id_missing, F_id_all>>],
     files |-> {expanduser(F_id_jump), F_id_all}]

\* ------------------------------------------------------------------------
\* get_tunnel_manager_from_config, lines 388-416
\* ------------------------------------------------------------------------

\* The option keys of the "ssh tunnels" section and their defaults.
K_allow_agent == <<"a", "l", "l", "o", "w", "_", "a", "g", "e", "n", "t">>
K_host_key_policy ==
    <<"h", "o", "s", "t", "_", "k", "e", "y", "_", "p", "o", "l", "i", "c", "y">>
V_True == <<"T", "r", "u", "e">>
V_true == <<"t", "r", "u", "e">>
V_auto_add == <<"a", "u", "t", "o", "-", "a", "d", "d">>
V_warn == <<"w", "a", "r", "n">>
V_reject == <<"r", "e", "j", "e", "c", "t">>

\* section.get(key, default) on a section kept as its [pattern, url] entries
\* (key and value) in file order; keys are distinct.
section_get(section, key, default) ==
    IF \E i \in 1..Len(section) : section[i].pattern = key
    THEN section[CHOOSE i \in 1..Len(section) : section[i].pattern = key].url
    ELSE default

\* Line 407: str(...get("allow_agent", "True")).lower() == "true"
allow_agent_from_config(section) ==
    Lower(section_get(section, K_allow_agent, V_True)) = V_true

\* A plausible slip: the configured policy passed on as written.
host_key_policy_as_written(section) ==
    section_get(section, K_host_key_policy, V_auto_add)

\* Line 408: str(...get("host_key_policy", "auto-add")).lower()
host_key_policy_from_config(section) ==
    Lower(section_get(section, K_host_key_policy, V_auto_add))

\* ------------------------------------------------------------------------
\* pgcli_dump (src/pgcli/dump.py): strings
\* ------------------------------------------------------------------------

\* s.startswith(prefix)
startswith(s, prefix) == Len(s) >= Len(prefix) /\ SubSeq(s, 1, Len(prefix)) = prefix

\* s.split(sep) for a separator of one character
RECURSIVE split(_, _)
split(s, sep) ==
    IF IndexFrom(s, {sep}, 1) = 0 THEN <<s>>
    ELSE <<SubSeq(s, 1, IndexFrom(s, {sep}, 1) - 1)>>
             \o split(SubSeq(s, IndexFrom(s, {sep}, 1) + 1, Len(s)), sep)

\* s.split(sep, 1)[1] for s with sep in it: what follows the first sep.
after_first(s, sep) == SubSeq(s, IndexFrom(s, {sep}, 1) + 1, Len(s))

\* s.split(): the runs of non-blank characters.
split_blank(s) == SelectSeq(split(s, " "), LAMBDA part : part # <<>>)

\* sep.join(parts)
RECURSIVE join(_, _)
join(parts, sep) ==
    IF parts = <<>> THEN <<>>
    ELSE IF Len(parts) = 1 THEN parts[1]
    ELSE parts[1] \o sep \o join(Tail(parts), sep)

\* s.strip()
RECURSIVE strip(_)
strip(s) ==
    IF s # <<>> /\ s[1] = " " THEN strip(Tail(s))
    ELSE IF s # <<>> /\ s[Len(s)] = " " THEN strip(SubSeq(s, 1, Len(s) - 1))
    ELSE s

\* str(n) for an integer n >= 0
RECURSIVE str(_)
str(n) ==
    IF n < 10 THEN <<CHOOSE d \in DOMAIN DigitValue : DigitValue[d] = n>>
    ELSE str(n \div 10) \o <<CHOOSE d \in DOMAIN DigitValue : DigitValue[d] = n % 10>>

\* fnmatch.fnmatch(name, pat) on POSIX, for patterns of literal characters,
\* "*" and "?".
RECURSIVE fnmatch(_, _)
fnmatch(name, pat) ==
    IF pat = <<>> THEN name = <<>>
    ELSE IF pat[1] = "*"
    THEN fnmatch(name, Tail(pat)) \/ (name # <<>> /\ fnmatch(Tail(name), pat))
    ELSE /\ name # <<>>
         /\ pat[1] = "?" \/ pat[1] = name[1]
         /\ fnmatch(Tail(name), Tail(pat))

\* The option spellings the three functions look for.
O_h == <<"-", "h">>
O_host == <<"-", "-", "h", "o", "s", "t">>
O_p == <<"-", "p">>
O_port == <<"-", "-", "p", "o", "r", "t">>
O_d == <<"-", "d">>
O_dbname == <<"-", "-", "d", "b", "n", "a", "m", "e">>
O_U == <<"-", "U">>
O_username == <<"-", "-", "u", "s", "e", "r", "n", "a", "m", "e">>
E_host == <<"-", "-", "h", "o", "s", "t", "=">>
E_port == <<"-", "-", "p", "o", "r", "t", "=">>
E_dbname == <<"-", "-", "d", "b", "n", "a", "m", "e", "=">>
E_username == <<"-", "-", "u", "s", "e", "r", "n", "a", "m", "e", "=">>
KV_host == <<"h", "o", "s", "t", "=">>
KV_port == <<"p", "o", "r", "t", "=">>
HostFlags == {O_h, O_host}
PortFlags == {O_p, O_port}
DbnameFlags == {O_d, O_dbname}
UserFlags == {O_U, O_username}

\* ------------------------------------------------------------------------
\* parse_connection_args, lines 163-243
\* ------------------------------------------------------------------------

\* Lines 216-222 and 229-235: the parts of a connection string, in order;
\* int() of a port that is not a number raises ValueError.
RECURSIVE scan_parts(_, _)
scan_parts(parts, st) ==
    IF parts = <<>> \/ st.raised THEN st
    ELSE IF startswith(Head(parts), KV_host)
    THEN scan_parts(Tail(parts), [st EXCEPT !.host = after_first(Head(parts), "="),
                                            !.has_host = TRUE])
    ELSE IF startswith(Head(parts), KV_port)
    THEN (IF IsDigits(after_first(Head(parts), "="))
          THEN scan_parts(Tail(parts),
                          [st EXCEPT !.port = ToInt(after_first(Head(parts), "=")),
                                     !.has_port = TRUE])
          ELSE [st EXCEPT !.raised = TRUE])
    ELSE scan_parts(Tail(parts), st)

\* Lines 214 and 228: a dbname is scanned only if "host=" is in it.
scan_dbname(dbname, st) ==
    IF Contains(dbname, KV_host) THEN scan_parts(split_blank(dbname), st) ELSE st

\* The loop of lines 176-241 from args[i] on (i counts from 1). An option
\* that needs a value and is the last argument is kept as any other
\* argument.
RECURSIVE parse_from(_, _, _)
parse_from(args, i, st) ==
    IF st.raised \/ i > Len(args) THEN st
    ELSE IF args[i] \in HostFlags /\ i + 1 <= Len(args)
    THEN parse_from(args, i + 2,
             [st EXCEPT !.host = args[i + 1], !.has_host = TRUE,
                        !.remaining_args = @ \o <<args[i], args[i + 1]>>])
    ELSE IF startswith(args[i], E_host)
    THEN parse_from(args, i + 1,
             [st EXCEPT !.host = after_first(args[i], "="), !.has_host = TRUE,
                        !.remaining_args = Append(@, args[i])])
    ELSE IF args[i] \in PortFlags /\ i + 1 <= Len(args)
    THEN (IF IsDigits(args[i + 1])
          THEN parse_from(args, i + 2,
                   [st EXCEPT !.port = ToInt(args[i + 1]), !.has_port = TRUE,
                              !.remaining_args = @ \o <<args[i], args[i + 1]>>])
          ELSE [st EXCEPT !.raised = TRUE])
    ELSE IF startswith(args[i], E_port)
    THEN (IF IsDigits(after_first(args[i], "="))
          THEN parse_from(args, i + 1,
                   [st EXCEPT !.port = ToInt(after_first(args[i], "=")),
                              !.has_port = TRUE,
                              !.remaining_args = Append(@, args[i])])
          ELSE [st EXCEPT !.raised = TRUE])
    ELSE IF args[i] \in DbnameFlags /\ i + 1 <= Len(args)
    THEN parse_from(args, i + 2,
             [scan_dbname(args[i + 1], st) EXCEPT
                        !.remaining_args = @ \o <<args[i], args[i + 1]>>])
    ELSE IF startswith(args[i], E_dbname)
    THEN parse_from(args, i + 1,
             [scan_dbname(after_first(args[i], "="), st) EXCEPT
                        !.remaining_args = Append(@, args[i])])
    ELSE parse_from(args, i + 1, [st EXCEPT !.remaining_args = Append(@, args[i])])

\* parse_connection_args(args) in a process without PGHOST and PGPORT:
\* (host, port, remaining_args, has_host, has_port), or ValueError raised.
parse_connection_args(args) ==
    parse_from(args, 1, [host |-> S_localhost, port |-> 5432, remaining_args |-> <<>>,
                         has_host |-> FALSE, has_port |-> FALSE, raised |-> FALSE])

\* ------------------------------------------------------------------------
\* build_tunneled_args, lines 246-331
\* ------------------------------------------------------------------------

\* Lines 293-298 and 310-315: one part of a connection string.
new_part(part, tunnel_host, tunnel_port) ==
    IF startswith(part, KV_host) THEN KV_host \o tunnel_host
    ELSE IF startswith(part, KV_port) THEN KV_port \o str(tunnel_port)
    ELSE part

\* Lines 288-301 and 306-318: a dbname with "host=" in it is split, its
\* host= and port= parts are replaced and the parts joined with a blank; any
\* other dbname is kept.
new_dbname(dbname, tunnel_host, tunnel_port) ==
    IF Contains(dbname, KV_host)
    THEN join([k \in 1..Len(split_blank(dbname)) |->
                   new_part(split_blank(dbname)[k], tunnel_host, tunnel_port)], <<" ">>)
    ELSE dbname

\* The loop of lines 261-323 from original_args[i] on (i counts from 1).
RECURSIVE build_from(_, _, _, _, _)
build_from(original_args, i, new_args, tunnel_host, tunnel_port) ==
    IF i > Len(original_args) THEN new_args
    ELSE IF original_args[i] \in HostFlags
    THEN build_from(original_args, i + 2, new_args \o <<O_h, tunnel_host>>,
                    tunnel_host, tunnel_port)
    ELSE IF startswith(original_args[i], E_host)
    THEN build_from(original_args, i + 1, Append(new_args, E_host \o tunnel_host),
                    tunnel_host, tunnel_port)
    ELSE IF original_args[i] \in PortFlags
    THEN build_from(original_args, i + 2, new_args \o <<O_p, str(tunnel_port)>>,
                    tunnel_host, tunnel_port)
    ELSE IF startswith(original_args[i], E_port)
    THEN build_from(original_args, i + 1, Append(new_args, E_port \o str(tunnel_port)),
                    tunnel_host, tunnel_port)
    ELSE IF original_args[i] \in DbnameFlags /\ i + 1 <= Len(original_args)
    THEN build_from(original_args, i + 2,
                    new_args \o <<O_d, new_dbname(original_args[i + 1],
                                                  tunnel_host, tunnel_port)>>,
                    tunnel_host, tunnel_port)
    ELSE IF startswith(original_args[i], E_dbname)
    THEN build_from(original_args, i + 1,
                    Append(new_args, E_dbname \o new_dbname(after_first(original_args[i], "="),
                                                            tunnel_host, tunnel_port)),
                    tunnel_host, tunnel_port)
    ELSE build_from(original_args, i + 1, Append(new_args, original_args[i]),
                    tunnel_host, tunnel_port)

build_tunneled_args(original_args, tunnel_host, tunnel_port, original_host, original_port, has_host, has_port) ==
    build_from(original_args, 1, <<>>, tunnel_host, tunnel_port)
        \o (IF ~has_host THEN <<O_h, tunnel_host>> ELSE <<>>)
        \o (IF ~has_port THEN <<O_p, str(tunnel_port)>> ELSE <<>>)

\* ------------------------------------------------------------------------
\* parse_user_and_database, lines 67-117, and get_password_from_pgpass,
\* lines 22-64
\* ------------------------------------------------------------------------

\* Line 110: the options whose value is not taken for the database name.
ValueFlags ==
    HostFlags \cup PortFlags \cup UserFlags \cup DbnameFlags
        \cup {<<"-", "f">>, <<"-", "-", "f", "i", "l", "e">>, <<"-", "F">>, <<"-", "-", "f", "o", "r", "m", "a", "t">>}

\* The loop of lines 77-115 from args[i] on (i counts from 1).
RECURSIVE user_and_database_from(_, _, _)
user_and_database_from(args, i, st) ==
    IF i > Len(args) THEN st
    ELSE IF args[i] \in UserFlags /\ i + 1 <= Len(args)
    THEN user_and_database_from(args, i + 2, [st EXCEPT !.user = args[i + 1]])
    ELSE IF startswith(args[i], E_username)
    THEN user_and_database_from(args, i + 1,
                                [st EXCEPT !.user = after_first(args[i], "=")])
    ELSE IF args[i] \in DbnameFlags /\ i + 1 <= Len(args)
    THEN user_and_database_from(args, i + 2,
             IF Contains(args[i + 1], <<"=">>) THEN st
             ELSE [st EXCEPT !.database = args[i + 1]])
    ELSE IF startswith(args[i], E_dbname)
    THEN user_and_database_from(args, i + 1,
             IF Contains(after_first(args[i], "="), <<"=">>) THEN st
             ELSE [st EXCEPT !.database = after_first(args[i], "=")])
    ELSE IF /\ ~startswith(args[i], <<"-">>)
            /\ i = Len(args)
            /\ ~(i > 1 /\ args[i - 1] \in ValueFlags)
    THEN user_and_database_from(args, i + 1, [st EXCEPT !.database = args[i]])
    ELSE user_and_database_from(args, i + 1, st)

\* parse_user_and_database(args) in a process without PGUSER and PGDATABASE.
parse_user_and_database(args) ==
    user_and_database_from(args, 1, [user |-> <<"p", "o", "s", "t", "g", "r", "e", "s">>, database |-> <<"*">>])

\* Lines 41-47: the lines that are read: not blank, no comment, at least
\* five fields.
fields(line) == split(strip(line), ":")
is_entry(line) ==
    /\ strip(line) # <<>>
    /\ ~startswith(strip(line), <<"#">>)
    /\ Len(fields(line)) >= 5

\* Lines 54-59
line_matches(line, host, port, database, user) ==
    /\ fields(line)[1] = <<"*">> \/ fnmatch(host, fields(line)[1])
    /\ fields(line)[2] = <<"*">> \/ str(port) = fields(line)[2]
    /\ fields(line)[3] = <<"*">> \/ fnmatch(database, fields(line)[3])
    /\ fields(line)[4] = <<"*">> \/ fnmatch(user, fields(line)[4])

\* Line 51: the password is what follows the fourth colon.
pg_pass(line) == join(SubSeq(fields(line), 5, Len(fields(line))), <<":">>)

\* A plausible slip: the loop goes on after a match, so that the last
\* matching line wins.
RECURSIVE last_password(_, _, _, _, _)
last_password(lines, host, port, database, user) ==
    IF lines = <<>> THEN None
    ELSE IF /\ is_entry(lines[Len(lines)])
            /\ line_matches(lines[Len(lines)], host, port, database, user)
    THEN pg_pass(lines[Len(lines)])
    ELSE last_password(SubSeq(lines, 1, Len(lines) - 1), host, port, database, user)
get_password_from_pgpass_last(host, port, database, user) ==
    IF ~dump.pgpass.exists \/ ~dump.pgpass.readable THEN None
    ELSE last_password(dump.pgpass.lines, host, port, database, user)

\* The loop of lines 40-60: the password of the first line that matches.
RECURSIVE first_password(_, _, _, _, _)
first_password(lines, host, port, database, user) ==
    IF lines = <<>> THEN None
    ELSE IF is_entry(Head(lines)) /\ line_matches(Head(lines), host, port, database, user)
    THEN pg_pass(Head(lines))
    ELSE first_password(Tail(lines), host, port, database, user)

\* get_password_from_pgpass(host, port, database, user) on the ~/.pgpass of
\* the process: None when the file is missing (line 35) or cannot be read
\* (lines 61-62).
get_password_from_pgpass(host, port, database, user) ==
    IF ~dump.pgpass.exists \/ ~dump.pgpass.readable THEN None
    ELSE first_password(dump.pgpass.lines, host, port, database, user)

\* ------------------------------------------------------------------------
\* cli, lines 361-460
\* ------------------------------------------------------------------------

\* No ~/.pgpass.
NoPgpass == [exists |-> FALSE, readable |-> FALSE, lines |-> <<>>]

K_PGPASSWORD == <<"P", "G", "P", "A", "S", "S", "W", "O", "R", "D">>

\* Lines 431-437: the environment of pg_dump behind a tunnel. PGPASSWORD is
\* set from ~/.pgpass only if it is not in the environment and a non-empty
\* password is found for (host, port, database, user).
tunneled_env(environ, args, host, port) ==
    IF K_PGPASSWORD \in DOMAIN environ THEN environ
    ELSE IF Truthy(get_password_from_pgpass(host, port,
                       parse_user_and_database(args).database,
                       parse_user_and_database(args).user))
    THEN dict_update(environ,
             [k \in {K_PGPASSWORD} |->
                 get_password_from_pgpass(host, port,
                     parse_user_and_database(args).database,
                     parse_user_and_database(args).user)])
    ELSE environ

\* The arguments of the get_password_from_pgpass call of line 434, if it is
\* made.
NoLookup == [called |-> FALSE, host |-> None, port |-> NoPort]
pgpass_lookup(environ, host, port) ==
    IF K_PGPASSWORD \in DOMAIN environ THEN NoLookup
    ELSE [called |-> TRUE, host |-> host, port |-> port]

\* The variable dump outside a pgcli_dump process.
NoDump ==
    [pc |-> "none", args |-> <<>>, dsn_alias |-> None, environ |-> EmptyDict,
     pgpass |-> NoPgpass, host |-> None, port |-> NoPort, tunnel_host |-> None,
     tunnel_port |-> NoPort, final_args |-> <<>>, env |-> EmptyDict,
     lookup |-> NoLookup]

\* Lines 413-443 once start_tunnel has returned (tunnel_host, tunnel_port):
\* the command line and the environment pg_dump is run with.
launched(d, p, tunnel_host, tunnel_port) ==
    IF tunnel_host # p.host \/ tunnel_port # p.port
    THEN [d EXCEPT !.pc = "pg_dump", !.host = p.host, !.port = p.port,
                   !.tunnel_host = tunnel_host, !.tunnel_port = tunnel_port,
                   !.final_args = build_tunneled_args(p.remaining_args, tunnel_host,
                                      tunnel_port, p.host, p.port, p.has_host, p.has_port),
                   !.lookup = pgpass_lookup(d.environ, p.host, p.port),
                   !.env = tunneled_env(d.environ, d.args, p.host, p.port)]
    ELSE [d EXCEPT !.pc = "pg_dump", !.host = p.host, !.port = p.port,
                   !.tunnel_host = tunnel_host, !.tunnel_port = tunnel_port,
                   !.final_args = d.args, !.env = d.environ]

\* cli from its start to subprocess.run (lines 379-447): the arguments are
\* parsed (ValueError ends the command), the manager's start_tunnel is
\* called (it returns, raises or exits the process) and pg_dump is started.
CliStart ==
    /\ Running
    /\ dump.pc = "start"
    /\ \E p \in {parse_connection_args(dump.args)} :
         IF p.raised
         THEN /\ dump' = [dump EXCEPT !.pc = "raised"]
              /\ UNCHANGED <<dsn_vars, manager_vars, tunnel, sessions, conns,
                             atexit_hooks, proc, ssh_config, last_call, query>>
         ELSE /\ start_tunnel(p.host, p.port, dump.dsn_alias)
              /\ dump' = IF last_call'.outcome = "returned"
                         THEN launched(dump, p, last_call'.ret[1], last_call'.ret[2])
                         ELSE [dump EXCEPT !.pc = last_call'.outcome,
                                           !.host = p.host, !.port = p.port]

\* The exit statuses of cli once pg_dump was started: pg_dump's return code,
\* 1 when pg_dump is not found, 130 on KeyboardInterrupt (lines 448-458).
ExitStatuses == {0, 1, 130}

\* cli from the end of subprocess.run (lines 448-460): sys.exit, on its way
\* out the finally clause calls stop_tunnel, then the atexit hooks run.
CliEnd ==
    /\ Running
    /\ dump.pc = "pg_dump"
    /\ \E status \in ExitStatuses :
         /\ dump' = [dump EXCEPT !.pc = "done"]
         /\ proc' = [proc EXCEPT !.state = "exited", !.status = status]
    /\ tunnel' = stopped.tunnel
    /\ sessions' = stopped.sessions
    /\ last_call' = [NoCall EXCEPT !.op = "stop_tunnel", !.outcome = "returned",
                                   !.session = tunnel]
    /\ UNCHANGED <<dsn_vars, manager_vars, conns, atexit_hooks, ssh_config, query>>

\* The pg_dump arguments of the command line, up to MaxArgs of them.
MaxArgs == 3
ArgTokens ==
    {O_h, O_host, E_host \o S_db_prod_com, O_p, E_port \o <<"6", "4", "3", "2">>, O_d, O_dbname,
     S_db_prod_com, <<"6", "4", "3", "2">>, <<"m", "y", "d", "b">>,
     <<"d", "b", "n", "a", "m", "e", "=", "x", " ", " ", "h", "o", "s", "t", "=", "d", "b", ".", "p", "r", "o", "d", ".", "c", "o", "m", " ", "p", "o", "r", "t", "=", "6", "4", "3", "2">>,
     <<"d", "b", "n", "a", "m", "e", "=", "x", " ", "p", "o", "r", "t", "=", "6", "4", "3", "2">>,
     E_dbname \o <<"h", "o", "s", "t", "=", "d", "b", ".", "p", "r", "o", "d", ".", "c", "o", "m">>,
     E_username \o <<"a", "d", "m", "i", "n">>}
ArgLists == UNION {[1..n -> ArgTokens] : n \in 0..MaxArgs}

\* ~/.pgpass: missing, unreadable, or with these lines.
PgpassLines ==
    <<<<"#", " ", "h", "o", "s", "t", "n", "a", "m", "e", ":", "p", "o", "r", "t", ":", "d", "a", "t", "a", "b", "a", "s", "e", ":", "u", "s", "e", "r", "n", "a", "m", "e", ":", "p", "a", "s", "s", "w", "o", "r", "d">>,
      <<"1", "2", "7", ".", "0", ".", "0", ".", "1", ":", "*", ":", "*", ":", "*", ":", "l", "o", "o", "p", "p", "w">>,
      <<"d", "b", ".", "p", "r", "o", "d", ".", "c", "o", "m", ":", "6", "4", "3", "2", ":", "*", ":", "a", "d", "m", "i", "n", ":", "a", "d", "m", "i", "n", "p", "w">>,
      <<"d", "b", ".", "p", "r", "o", "d", ".", "c", "o", "m", ":", "*", ":", "*", ":", "*", ":", "f", "i", "r", "s", "t", ":", "p", "w">>,
      <<"*", ":", "*", ":", "*", ":", "*", ":", "a", "n", "y", "p", "w">>>>
PgpassFiles ==
    {NoPgpass,
     [exists |-> TRUE, readable |-> FALSE, lines |-> <<>>],
     [exists |-> TRUE, readable |-> TRUE, lines |-> PgpassLines]}

\* The environment of the process: without or with PGPASSWORD.
Environs == {EmptyDict, [k \in {K_PGPASSWORD} |-> <<"e", "n", "v", "p", "w">>]}

\* pgcli_dump run once, with a pgcli configuration whose [ssh tunnels]
\* section has the rule db\.prod\.com = bastion:22 and without --ssh-tunnel
\* and --dsn.
InitDump ==
    /\ ssh_tunnel_url = None
    /\ ssh_tunnel_config = <<P_host_rule>>
    /\ dsn_ssh_tunnel_config = <<>>
    /\ allow_agent = allow_agent_from_config(<<P_host_rule>>)
    /\ host_key_policy = host_key_policy_from_config(<<P_host_rule>>)
    /\ ssh_config = NoSshConfig
    /\ tunnel = 0
    /\ sessions = <<>>
    /\ conns = <<>>
    /\ atexit_hooks = 0
    /\ proc = [state |-> "running", status |-> 0, diagnostics |-> 0]
    /\ last_call = NoCall
    /\ query = NoQuery
    /\ NoDsnAliases
    /\ \E args \in ArgLists, environ \in Environs, pgpass \in PgpassFiles :
         dump = [NoDump EXCEPT !.pc = "start", !.args = args, !.environ = environ,
                               !.pgpass = pgpass]

NextDump ==
    \/ CliStart
    \/ CliEnd

SpecDump == InitDump /\ [][NextDump]_vars

\* SSHTunnelManager(...) as its callers construct it, with the ~/.ssh/config
\* of the process: no rule; a host rule and an alias rule, without and with
\* an SSH configuration; an explicit specification beside a host rule that
\* matches every host; a host rule whose specification has a malformed port.
Setups ==
    {[url |-> None, hosts |-> <<>>, aliases |-> <<>>, config |-> NoSshConfig],
     [url |-> None, hosts |-> <<P_host_rule>>, aliases |-> <<P_alias_rule>>,
      config |-> NoSshConfig],
     [url |-> None, hosts |-> <<P_host_rule>>, aliases |-> <<P_alias_rule>>,
      config |-> JumpSshConfig],
     [url |-> U_user_pw, hosts |-> <<[pattern |-> P_any, url |-> U_bastion]>>,
      aliases |-> <<>>, config |-> NoSshConfig],
     [url |-> None, hosts |-> <<[pattern |-> P_any, url |-> U_badport]>>,
      aliases |-> <<P_alias_rule>>, config |-> JumpSshConfig]}

Init ==
    /\ dump = NoDump
    /\ \E m \in Setups :
         /\ ssh_tunnel_url = m.url
         /\ ssh_tunnel_config = m.hosts
         /\ dsn_ssh_tunnel_config = m.aliases
         /\ ssh_config = m.config
         /\ allow_agent = allow_agent_from_config(m.hosts)
         /\ host_key_policy = host_key_policy_from_config(m.hosts)
    /\ tunnel = 0
    /\ sessions = <<>>
    /\ conns = <<>>
    /\ atexit_hooks = 0
    /\ proc = [state |-> "running", status |-> 0, diagnostics |-> 0]
    /\ last_call = NoCall
    /\ query = NoQuery
    /\ NoDsnAliases

Next ==
    \/ \E a \in CallArgs : start_tunnel(a.host, a.port, a.dsn_alias) /\ UNCHANGED dump
    \/ stop_tunnel
    \/ ProcessExit
    \/ \E i \in 1..Len(sessions) : Accept(i)
    \/ \E c \in 1..Len(conns) : OpenChannel(c)
    \/ \E c \in 1..Len(conns) : EndRelay(c)

Spec == Init /\ [][Next]_vars

\* ------------------------------------------------------------------------
\* One _NativeSSHTunnel driven directly: a manager is built from a
\* configuration, the session is constructed as start_tunnel constructs it
\* (lines 298-359), and start() and stop() are then called on the session
\* itself, in any order that a caller holding it can produce.
\* ------------------------------------------------------------------------

MaxStarts == 2

\* Values of host_key_policy and allow_agent as configuration files write
\* them; None stands for an option the section does not set.
PolicyOptions ==
    <<[policy |-> <<"W", "A", "R", "N">>,                     agent |-> <<"F", "a", "l", "s", "e">>],
      [policy |-> <<"R", "e", "j", "e", "c", "t">>,           agent |-> <<"t", "r", "u", "e">>],
      [policy |-> <<"s", "t", "r", "i", "c", "t">>,           agent |-> <<"n", "o">>],
      [policy |-> <<"A", "u", "t", "o", "-", "A", "d", "d">>, agent |-> <<"T", "R", "U", "E">>],
      [policy |-> V_warn,                                     agent |-> None],
      [policy |-> <<"r", "e", "J", "E", "C", "T">>,           agent |-> <<"F", "A", "L", "S", "E">>],
      [policy |-> None,                                       agent |-> V_True],
      [policy |-> <<"w", "a", "r", "n", "i", "n", "g">>,      agent |-> <<"0">>]>>

\* An "ssh tunnels" section with one tunnel rule and the options of o.
OptionSection(o) ==
    (IF o.policy = None THEN <<>>
     ELSE <<[pattern |-> K_host_key_policy, url |-> o.policy]>>)
    \o <<P_host_rule>>
    \o (IF o.agent = None THEN <<>>
        ELSE <<[pattern |-> K_allow_agent, url |-> o.agent]>>)

\* Explicit tunnel specifications: with and without user, password and port.
U_empty_user == <<"s", "s", "h", ":", "/", "/", "@", "j", "u", "m", "p">>
U_pw_jump == <<"s", "s", "h", ":", "/", "/", "u", "s", "e", "r", ":", "s", "3", "c", "r", "e", "t", "@", "j", "u", "m", "p", ":", "2", "2", "2", "2">>
U_port_zero == <<"s", "s", "h", ":", "/", "/", "j", "u", "m", "p", ":", "0">>
SessionUrls ==
    {U_bastion, S_jump, U_ssh_user_jump, U_user_pw, U_empty_user, U_pw_jump, U_port_zero}

\* ~/.ssh/config that cannot be parsed, and one whose Port option for
\* "jump" is not a number.
BrokenSshConfig == [JumpSshConfig EXCEPT !.parse_ok = FALSE]
BadPortSshConfig == [JumpSshConfig EXCEPT !.options.port = <<"2", "2", "o", "2">>]
\* ~/.ssh/config whose identity files are all missing from the disk.
KeylessSshConfig == [JumpSshConfig EXCEPT !.files = {}]
SshConfigs ==
    {NoSshConfig, JumpSshConfig, BrokenSshConfig, BadPortSshConfig, KeylessSshConfig}

InitSession ==
    /\ dump = NoDump
    /\ \E o \in {PolicyOptions[k] : k \in 1..Len(PolicyOptions)} :
         /\ ssh_tunnel_config = OptionSection(o)
         /\ allow_agent = allow_agent_from_config(OptionSection(o))
         /\ host_key_policy = host_key_policy_from_config(OptionSection(o))
    /\ ssh_tunnel_url \in SessionUrls
    /\ dsn_ssh_tunnel_config = <<>>
    /\ ssh_config \in SshConfigs
    /\ tunnel = 0
    /\ sessions = <<NativeSSHTunnel(resolve(ssh_tunnel_url), S_db_prod_com, 5432,
                                    [host |-> S_db_prod_com, port |-> 5432])>>
    /\ conns = <<>>
    /\ atexit_hooks = 0
    /\ proc = [state |-> "running", status |-> 0, diagnostics |-> 0]
    /\ last_call = NoCall
    /\ query = NoQuery
    /\ NoDsnAliases

\* session.start() by the holder of the session; it returns or raises as
\* start() does. A caller does not start a session whose client or listener
\* is still held.
SessionStart ==
    /\ Running
    /\ sessions[1].client = "None" /\ sessions[1].server = "None"
    /\ sessions[1].starts < MaxStarts
    /\ \E outcome \in StartOutcomes, bind_port \in EphemeralPorts :
         /\ sessions[1].ssh_hostname = None => outcome \in ConnectFailures
         /\ outcome \in ConnectFailures \cup {"bind_failed"}
               => bind_port = CHOOSE q \in EphemeralPorts : TRUE
         /\ sessions' = [sessions EXCEPT ![1] = start(@, outcome, bind_port)]
         /\ last_call' = [NoCall EXCEPT !.op = "start", !.session = 1,
                              !.outcome = IF outcome = "ok" THEN "returned" ELSE "raised",
                              !.failed_at = outcome]
    /\ UNCHANGED <<dsn_vars, dump, manager_vars, tunnel, conns, atexit_hooks, proc, ssh_config, query>>

\* session.stop() by the holder of the session, in whatever state it is; a
\* caller waiting inside stop() makes no further call.
SessionStop ==
    /\ Running
    /\ ~sessions[1].stop_waiting
    /\ sessions' = [sessions EXCEPT ![1] = stop(@)]
    /\ last_call' = [NoCall EXCEPT !.op = "stop", !.session = 1,
                         !.outcome = IF stop(sessions[1]).stop_waiting
                                     THEN "waiting" ELSE "returned"]
    /\ UNCHANGED <<dsn_vars, dump, manager_vars, tunnel, conns, atexit_hooks, proc, ssh_config, query>>

NextSession ==
    \/ SessionStart
    \/ SessionStop
    \/ Accept(1)
    \/ \E c \in 1..Len(conns) : OpenChannel(c)
    \/ \E c \in 1..Len(conns) : EndRelay(c)

SpecSession == InitSession /\ [][NextSession]_vars

\* ------------------------------------------------------------------------
\* The forwarders of one session: the session of a manager with one tunnel
\* rule is started and stopped by its holder while local connections are
\* accepted and relayed.
\* ------------------------------------------------------------------------

InitRelay ==
    /\ dump = NoDump
    /\ ssh_tunnel_config = <<P_host_rule>>
    /\ allow_agent = allow_agent_from_config(<<P_host_rule>>)
    /\ host_key_policy = host_key_policy_from_config(<<P_host_rule>>)
    /\ ssh_tunnel_url = None
    /\ dsn_ssh_tunnel_config = <<>>
    /\ ssh_config = NoSshConfig
    /\ tunnel = 0
    /\ sessions = <<NativeSSHTunnel(resolve(find_tunnel_url(S_db_prod_com, None)),
                                    S_db_prod_com, 5432,
                                    [host |-> S_db_prod_com, port |-> 5432])>>
    /\ conns = <<>>
    /\ atexit_hooks = 0
    /\ proc = [state |-> "running", status |-> 0, diagnostics |-> 0]
    /\ last_call = NoCall
    /\ query = NoQuery
    /\ NoDsnAliases

NextRelay ==
    \/ SessionStart
    \/ SessionStop
    \/ Accept(1)
    \/ \E c \in 1..Len(conns) : OpenChannel(c)
    \/ \E c \in 1..Len(conns) : Recv(c)
    \/ \E c \in 1..Len(conns) : SendAll(c)
    \/ \E c \in 1..Len(conns) : EndRelay(c)

SpecRelay == InitRelay /\ [][NextRelay]_vars

\* The steps the thread of handler c takes on its own once it is scheduled:
\* open_channel returns or raises (it waits with a timeout), sendall
\* returns, and, once the channel is closed, the loop is left: select
\* returns at the latest after its timeout of one second, the closed
\* channel reads as end of stream and a sendall to it raises. While the
\* channel is open the end of the relay is up to the two peers.
Handle(c) ==
    /\ c \in 1..Len(conns)
    /\ \/ OpenChannel(c)
       \/ SendAll(c)
       \/ ~channel_open(c) /\ EndRelay(c)

\* The forwarders under a fair scheduler: every handler thread that can
\* take a step of its own eventually takes one.
SpecRelayFair == SpecRelay /\ \A c \in 1..MaxConns : WF_vars(Handle(c))

\* ------------------------------------------------------------------------
\* Rule matching as a pure function: managers over bounded rule sets,
\* queried with find_tunnel_url
\* ------------------------------------------------------------------------

MaxRules == 2

Patterns == {P_prod, P_any, P_db_prod_com, P_prod_any}
ExplicitUrls == {None, <<>>, U_explicit}
QueryHosts == {None, <<>>, S_prod, S_production, S_nonprod,
               S_prod_example_com, S_db_prod_com}
QueryAliases == {None, <<>>, S_prod, S_nonprod, S_production}

Digits == <<"0", "1", "2", "3", "4", "5", "6", "7", "8", "9">>

\* The specification of the i-th host rule ("hostgw<i>") and of the i-th
\* alias rule ("dsngw<i>"): every rule has a specification of its own, so a
\* result names the rule it came from.
HostRuleUrl(i) == <<"h", "o", "s", "t", "g", "w", Digits[(i % 10) + 1]>>
AliasRuleUrl(i) == <<"d", "s", "n", "g", "w", Digits[(i % 10) + 1]>>

\* The key orders of a dict of at most MaxRules rules: keys are distinct.
PatternOrders ==
    {r \in UNION {[1..n -> Patterns] : n \in 0..MaxRules} :
        \A i, k \in 1..Len(r) : i # k => r[i] # r[k]}

HostRuleSets ==
    {[i \in 1..Len(r) |-> [pattern |-> r[i], url |-> HostRuleUrl(i)]] : r \in PatternOrders}
AliasRuleSets ==
    {[i \in 1..Len(r) |-> [pattern |-> r[i], url |-> AliasRuleUrl(i)]] : r \in PatternOrders}

InitMatch ==
    /\ dump = NoDump
    /\ ssh_tunnel_url \in ExplicitUrls
    /\ ssh_tunnel_config \in HostRuleSets
    /\ dsn_ssh_tunnel_config \in AliasRuleSets
    /\ allow_agent = TRUE
    /\ host_key_policy = V_auto_add
    /\ tunnel = 0
    /\ sessions = <<>>
    /\ conns = <<>>
    /\ atexit_hooks = 0
    /\ proc = [state |-> "running", status |-> 0, diagnostics |-> 0]
    /\ ssh_config = NoSshConfig
    /\ last_call = NoCall
    /\ query \in [host : QueryHosts, dsn_alias : QueryAliases,
                  done : {FALSE}, result : {None}]
    /\ NoDsnAliases

\* One call find_tunnel_url(host, dsn_alias) on the manager.
FindTunnelUrl ==
    /\ ~query.done
    /\ query' = [query EXCEPT !.done = TRUE,
                               !.result = find_tunnel_url(query.host, query.dsn_alias)]
    /\ UNCHANGED <<dsn_vars, dump, manager_vars, tunnel, sessions, conns, atexit_hooks, proc,
                   ssh_config, last_call>>

NextMatch == FindTunnelUrl

SpecMatch == InitMatch /\ [][NextMatch]_vars

\* ------------------------------------------------------------------------
\* Managers built by get_tunnel_manager_from_config from configurations
\* whose "ssh tunnels" section sets options beside a tunnel rule, queried
\* with find_tunnel_url
\* ------------------------------------------------------------------------

\* Database hosts, the names of the two options among them.
FactoryHosts == {None, S_prod, S_db_prod_com, S_localhost, K_allow_agent,
                 K_host_key_policy}
FactoryAliases == {None, S_prod, K_allow_agent}

\* get_tunnel_manager_from_config(config, ssh_tunnel_url), lines 405-416:
\* the options are read from the "ssh tunnels" section and the whole
\* section is passed as ssh_tunnel_config.
InitFactory ==
    /\ dump = NoDump
    /\ ssh_tunnel_url \in {None, U_explicit}
    /\ \E k \in 1..Len(PolicyOptions) :
         /\ ssh_tunnel_config = OptionSection(PolicyOptions[k])
         /\ allow_agent = allow_agent_from_config(OptionSection(PolicyOptions[k]))
         /\ host_key_policy = host_key_policy_from_config(OptionSection(PolicyOptions[k]))
    /\ dsn_ssh_tunnel_config \in {<<>>, <<P_alias_rule>>}
    /\ tunnel = 0
    /\ sessions = <<>>
    /\ conns = <<>>
    /\ atexit_hooks = 0
    /\ proc = [state |-> "running", status |-> 0, diagnostics |-> 0]
    /\ ssh_config = NoSshConfig
    /\ last_call = NoCall
    /\ query \in [host : FactoryHosts, dsn_alias : FactoryAliases,
                  done : {FALSE}, result : {None}]
    /\ NoDsnAliases

NextFactory == FindTunnelUrl

SpecFactory == InitFactory /\ [][NextFactory]_vars

\* ------------------------------------------------------------------------
\* A DsnAliases instance beside a directory that changes
\* ------------------------------------------------------------------------

\* DsnAliases(config, include_dir) as constructed: the default directory
\* beside the configuration file, without and with aliases in the main
\* configuration; an includedir directive, relative and absolute; an
\* explicit include_dir; nothing to derive a directory from.
DsnSetups ==
    {[config |-> [filename |-> ConfigPath, alias_dsn |-> EmptyDict],
      include_dir |-> None],
     [config |-> [filename |-> ConfigPath,
                  alias_dsn |-> [k \in {K_mydb, K_local} |->
                                    IF k = K_mydb THEN V_main ELSE V_local]],
      include_dir |-> None],
     [config |-> [filename |-> ConfigPath,
                  alias_dsn |-> [k \in {K_includedir, K_mydb} |->
                                    IF k = K_mydb THEN V_main ELSE DSN_D]],
      include_dir |-> None],
     [config |-> [filename |-> ConfigPath,
                  alias_dsn |-> [k \in {K_includedir, K_local} |->
                                    IF k = K_local THEN V_local ELSE V_elsewhere]],
      include_dir |-> None],
     [config |-> [filename |-> None, alias_dsn |-> [k \in {K_db2} |-> V_main]],
      include_dir |-> DsnDirPath],
     [config |-> [filename |-> None, alias_dsn |-> [k \in {K_local} |-> V_local]],
      include_dir |-> None]}

\* The directory when the instance is constructed.
InitialDirectories ==
    {NoDirectory,
     [NoDirectory EXCEPT !.exists = TRUE],
     [exists |-> TRUE,
      entries |-> [f \in FileNames |->
                      IF f = N_a_first THEN F_first
                      ELSE IF f = N_b_second THEN F_second ELSE NoEntry]]}

InitDsn ==
    /\ dump = NoDump
    /\ \E m \in DsnSetups : config = m.config /\ include_dir = m.include_dir
    /\ fs \in InitialDirectories
    /\ \E listing \in Listings :
          included_aliases = load_included_aliases(listing, EmptyDict)
    /\ loaded = directory_loaded
    /\ ssh_tunnel_url = None
    /\ ssh_tunnel_config = <<>>
    /\ dsn_ssh_tunnel_config = <<>>
    /\ allow_agent = TRUE
    /\ host_key_policy = V_auto_add
    /\ tunnel = 0
    /\ sessions = <<>>
    /\ conns = <<>>
    /\ atexit_hooks = 0
    /\ proc = [state |-> "running", status |-> 0, diagnostics |-> 0]
    /\ ssh_config = NoSshConfig
    /\ last_call = NoCall
    /\ query = NoQuery

NextDsn ==
    \/ \E f \in FileNames : \E entry \in EntriesOf(f) : WriteFile(f, entry)
    \/ \E f \in FileNames : RemoveFile(f)
    \/ RemoveDir
    \/ MakeDir
    \/ ReloadIncludes

SpecDsn == InitDsn /\ [][NextDsn]_vars

\* ------------------------------------------------------------------------
\* The language of a pattern, stated without the engine: s is in the
\* language of p iff s splits into consecutive segments, one per token, a
\* segment of exactly one character for a plain token and of any length for
\* a starred one, every character matching its token's atom.
\* ------------------------------------------------------------------------

SegLen(t, f, i) == IF t[i].star THEN f[i] ELSE 1

RECURSIVE SegStart(_, _, _)
SegStart(t, f, i) == IF i = 1 THEN 0 ELSE SegStart(t, f, i - 1) + SegLen(t, f, i - 1)

InLanguage(p, s) ==
    LET t     == Tokens(p, 1)
        stars == {i \in 1..Len(t) : t[i].star}
    IN  \E f \in [stars -> 0..Len(s)] :
            /\ SegStart(t, f, Len(t) + 1) = Len(s)
            /\ \A i \in 1..Len(t) : \A k \in 1..SegLen(t, f, i) :
                   AtomMatches(t[i].atom, s[SegStart(t, f, i) + k])

\* A pattern without metacharacters: its language is the pattern itself.
IsLiteral(p) == \A i \in 1..Len(p) : p[i] \notin {"\\", ".", "*"}

\* The alias rules, and the host rules, whose language holds the candidate
\* of the query (none when the candidate is None or "").
AliasHits ==
    {i \in 1..Len(dsn_ssh_tunnel_config) :
        Truthy(query.dsn_alias)
        /\ InLanguage(dsn_ssh_tunnel_config[i].pattern, query.dsn_alias)}
HostHits ==
    {i \in 1..Len(ssh_tunnel_config) :
        Truthy(query.host) /\ InLanguage(ssh_tunnel_config[i].pattern, query.host)}

MinOf(S) == CHOOSE i \in S : \A k \in S : i <= k

Answered == query.done
ByRules == query.done /\ ~Truthy(ssh_tunnel_url)

\* ------------------------------------------------------------------------
\* Claims about find_tunnel_url (specification SpecMatch)
\* ------------------------------------------------------------------------

\* C7: a rule is selected only if the whole candidate (alias or host) is in
\* the language of its whole pattern; for a pattern without metacharacters
\* the candidate is then the pattern itself, so "prod" selects for "prod"
\* and never for "production", "nonprod" or "prod.example.com".
C7_FullMatchOnly ==
    ByRules =>
        /\ \A i \in 1..Len(dsn_ssh_tunnel_config) :
              query.result = AliasRuleUrl(i) =>
                  /\ InLanguage(dsn_ssh_tunnel_config[i].pattern, query.dsn_alias)
                  /\ IsLiteral(dsn_ssh_tunnel_config[i].pattern)
                        => query.dsn_alias = dsn_ssh_tunnel_config[i].pattern
        /\ \A i \in 1..Len(ssh_tunnel_config) :
              query.result = HostRuleUrl(i) =>
                  /\ InLanguage(ssh_tunnel_config[i].pattern, query.host)
                  /\ IsLiteral(ssh_tunnel_config[i].pattern)
                        => query.host = ssh_tunnel_config[i].pattern
        /\ query.result # None =>
              \/ \E i \in 1..Len(dsn_ssh_tunnel_config) : query.result = AliasRuleUrl(i)
              \/ \E i \in 1..Len(ssh_tunnel_config) : query.result = HostRuleUrl(i)

\* C7 witness: the only rule is the host rule "prod", the host is
\* "production" (the pattern matches a proper prefix) and no rule is selected.
C7_Witness ==
    /\ ByRules
    /\ Len(ssh_tunnel_config) = 1 /\ ssh_tunnel_config[1].pattern = P_prod
    /\ Len(dsn_ssh_tunnel_config) = 0
    /\ query.host = S_production
    /\ re_match(P_prod, S_production)
    /\ query.result = None

\* C8: whenever an explicit specification was supplied to the manager,
\* find_tunnel_url returns it, whatever the host, the alias and the rules.
C8_ExplicitWins ==
    (Answered /\ Truthy(ssh_tunnel_url)) => query.result = ssh_tunnel_url

\* C8 witness: an explicit specification is returned although an alias rule
\* and a host rule both match.
C8_Witness ==
    /\ Answered /\ Truthy(ssh_tunnel_url)
    /\ AliasHits # {} /\ HostHits # {}
    /\ query.result = U_explicit

\* C9: with no explicit specification, when an alias rule matches the alias
\* and a host rule matches the host, the result is the specification of an
\* alias rule; a host rule's specification is returned only when no alias
\* rule matches.
C9_AliasBeforeHost ==
    ByRules =>
        /\ (AliasHits # {} /\ HostHits # {}) =>
               \E i \in AliasHits : query.result = AliasRuleUrl(i)
        /\ (\E i \in 1..Len(ssh_tunnel_config) : query.result = HostRuleUrl(i))
               => AliasHits = {}

\* C9 witness: both sets match and an alias rule's specification is returned.
C9_Witness ==
    /\ ByRules
    /\ AliasHits # {} /\ HostHits # {}
    /\ query.result = AliasRuleUrl(1)

\* C10: within a rule set the earliest inserted matching rule wins: the
\* result is the specification of the first matching alias rule or, when no
\* alias rule matches, of the first matching host rule.
C10_FirstMatchWins ==
    ByRules =>
        /\ AliasHits # {} => query.result = AliasRuleUrl(MinOf(AliasHits))
        /\ (AliasHits = {} /\ HostHits # {})
               => query.result = HostRuleUrl(MinOf(HostHits))

\* C10 witness: two host rules match the host and the first one is returned.
C10_Witness ==
    /\ ByRules
    /\ AliasHits = {}
    /\ Cardinality(HostHits) >= 2
    /\ query.result = HostRuleUrl(1)

\* ------------------------------------------------------------------------
\* Claims about the manager, its sessions and their forwarded connections
\* (specification Spec)
\* ------------------------------------------------------------------------

Origin(s) == <<s.origin.host, s.origin.port>>
Bastion(s) == <<s.ssh_hostname, s.ssh_port>>

\* C1: every channel a forwarded connection asks for is to the (host, port)
\* the caller passed to the start_tunnel call that created its session, and
\* not to the bastion's hostname and port.
C1_ChannelToCallerTarget ==
    \A c \in 1..Len(conns) :
        conns[c].dest # NoDest =>
            /\ conns[c].dest = Origin(sessions[conns[c].session])
            /\ conns[c].dest # Bastion(sessions[conns[c].session])

\* C1 witness: a channel is open for a connection of a session whose bastion
\* is bastion:22, and it leads to db.prod.com:5432.
C1_Witness ==
    \E c \in 1..Len(conns) :
        /\ conns[c].channel = "open"
        /\ conns[c].dest = <<S_db_prod_com, 5432>>
        /\ Bastion(sessions[conns[c].session]) = <<S_bastion, 22>>

\* C2: when a specification was found and the session's start failed (SSH
\* connect, authentication, host key, listener bind, accept thread),
\* start_tunnel printed a diagnostic, the process exited with a non-zero
\* status and no address was returned.
C2_FailedStartExits ==
    (last_call.op = "start_tunnel" /\ last_call.failed_at \in StartOutcomes \ {"ok"}) =>
        /\ last_call.outcome = "exit"
        /\ last_call.ret = NoAddr
        /\ proc.state = "exited"
        /\ proc.status # 0
        /\ proc.diagnostics >= 1

\* C2 witness: the listener could not be bound and the process exited with
\* status 1.
C2_Witness ==
    /\ last_call.op = "start_tunnel"
    /\ last_call.failed_at = "bind_failed"
    /\ proc.state = "exited" /\ proc.status = 1

\* C3: from the moment start_tunnel has returned a tunnel address until the
\* next call on the manager, the address is ("127.0.0.1", p) with p the port
\* of the session's bound listener, the SSH connection is established, the
\* accept loop runs and is_active is true.
C3_ReturnedWhenReady ==
    (Running /\ last_call.op = "start_tunnel" /\ last_call.outcome = "returned"
        /\ last_call.session # 0) =>
        LET s == sessions[last_call.session]
        IN  /\ last_call.ret = <<S_loopback, s.port>>
            /\ s.port \in EphemeralPorts
            /\ s.server = "held" /\ s.server_state = "serving"
            /\ s.thread = "held"
            /\ s.client = "held" /\ s.client_state = "connected"
            /\ s.is_active
            /\ tunnel = last_call.session

\* C3 witness: a second start_tunnel has returned a tunnel address.
C3_Witness ==
    /\ Running
    /\ last_call.op = "start_tunnel" /\ last_call.outcome = "returned"
    /\ last_call.session = 2
    /\ last_call.ret[1] = S_loopback

\* The sessions that hold an open SSH connection or a running listener.
ActiveSessions ==
    {i \in 1..Len(sessions) :
        sessions[i].client_state = "connected" \/ sessions[i].server_state = "serving"}

\* C4: while the process runs, at most one session the manager created is
\* active.
C4_AtMostOneActive == Running => Cardinality(ActiveSessions) <= 1

\* C5, the state after stop_tunnel: the manager holds no tunnel, the call
\* returned, and the session it held is not active, its listener shut down
\* and its SSH connection closed.
C5_AfterStop ==
    last_call.op = "stop_tunnel" =>
        /\ tunnel = 0
        /\ last_call.outcome = "returned"
        /\ last_call.session # 0 =>
              /\ ~sessions[last_call.session].is_active
              /\ last_call.session \notin ActiveSessions

\* C5, the step: stop_tunnel on a manager that holds no tunnel (it never
\* started one, or stop_tunnel has just run) changes nothing.
C5_StopWithoutTunnel ==
    (last_call'.op = "stop_tunnel" /\ proc'.state = "running" /\ tunnel = 0)
        => UNCHANGED <<tunnel, sessions, atexit_hooks, proc>>

\* C5: stop_tunnel is idempotent: after it the manager has no active tunnel,
\* and a stop_tunnel that finds no tunnel returns without changing state.
C5_StopIdempotent == []C5_AfterStop /\ [][C5_StopWithoutTunnel]_vars

\* C5 witness: stop_tunnel has stopped the session of a second start_tunnel.
C5_Witness ==
    /\ last_call.op = "stop_tunnel" /\ last_call.session = 2
    /\ tunnel = 0
    /\ sessions[2].server_state = "shutdown"

\* No explicit specification is set and the language of no alias pattern
\* holds the alias and of no host pattern the host.
NoSpecificationFor(host, dsn_alias) ==
    /\ ~Truthy(ssh_tunnel_url)
    /\ \A i \in 1..Len(dsn_ssh_tunnel_config) :
          dsn_alias = None \/ ~InLanguage(dsn_ssh_tunnel_config[i].pattern, dsn_alias)
    /\ \A i \in 1..Len(ssh_tunnel_config) :
          host = None \/ ~InLanguage(ssh_tunnel_config[i].pattern, host)

\* C6, the result: with no specification for (host, dsn_alias), start_tunnel
\* returned exactly (host, port) and constructed no session.
C6_NoMatchReturnsTarget ==
    (last_call.op = "start_tunnel"
        /\ NoSpecificationFor(last_call.host, last_call.dsn_alias)) =>
        /\ last_call.outcome = "returned"
        /\ last_call.ret = <<last_call.host, last_call.port>>
        /\ last_call.session = 0

\* C6, the step: such a call leaves manager.tunnel, the sessions (no SSH
\* connection, no listener), the atexit registrations and the process as
\* they were.
C6_NoMatchStep ==
    (last_call' # last_call /\ last_call'.op = "start_tunnel"
        /\ NoSpecificationFor(last_call'.host, last_call'.dsn_alias))
        => UNCHANGED <<tunnel, sessions, conns, atexit_hooks, proc>>

\* C6: without an explicit specification and without a fully matching rule,
\* start_tunnel(host, port, alias) returns (host, port) and changes nothing.
C6_NoMatchNoSession == []C6_NoMatchReturnsTarget /\ [][C6_NoMatchStep]_vars

\* C6 witness: rules are configured, the alias "production" and the host
\* "localhost" match none of them, and (localhost, 5432) came back.
C6_Witness ==
    /\ last_call.op = "start_tunnel"
    /\ Len(ssh_tunnel_config) > 0 /\ Len(dsn_ssh_tunnel_config) > 0
    /\ NoSpecificationFor(last_call.host, last_call.dsn_alias)
    /\ last_call.ret = <<S_localhost, 5432>>
    /\ tunnel = 0 /\ sessions = <<>>

\* ------------------------------------------------------------------------
\* Claims about one session and the parameters it is constructed with
\* (specification SpecSession)
\* ------------------------------------------------------------------------

\* The identity files of ~/.ssh/config, expanded, that exist on disk.
ExistingIdentityFiles ==
    {expanduser(ssh_config.options.identityfile[k]) :
        k \in 1..Len(ssh_config.options.identityfile)} \cap ssh_config.files

\* C11: every connect call of a session passes look_for_keys = False, and
\* the key files it offers, if any, are identity files that ~/.ssh/config
\* names and that exist; this for every allow_agent value, with and without
\* identity files and password.
C11_NoDefaultKeyLookup ==
    \A i \in 1..Len(sessions) :
        sessions[i].connects > 0 =>
            LET kw == sessions[i].connect_kwargs
            IN  /\ "look_for_keys" \in kw.names
                /\ kw.look_for_keys = FALSE
                /\ "key_filename" \in kw.names =>
                      /\ kw.key_filename # <<>>
                      /\ ssh_config.is_file /\ ssh_config.parse_ok
                      /\ \A k \in 1..Len(kw.key_filename) :
                             kw.key_filename[k] \in ExistingIdentityFiles

\* C11 witness: a connect call without agent that offers an identity file.
C11_Witness ==
    /\ sessions[1].connects > 0
    /\ ~sessions[1].connect_kwargs.allow_agent
    /\ "key_filename" \in sessions[1].connect_kwargs.names
    /\ sessions[1].connect_kwargs.look_for_keys = FALSE

\* Two strings equal up to the case of their ASCII letters.
SameIgnoringCase(a, b) ==
    /\ Len(a) = Len(b)
    /\ \A k \in 1..Len(a) :
          \/ a[k] = b[k]
          \/ a[k] \in DOMAIN UpperToLower /\ UpperToLower[a[k]] = b[k]
          \/ b[k] \in DOMAIN UpperToLower /\ UpperToLower[b[k]] = a[k]

\* The host_key_policy value of the configuration ("auto-add" when unset).
ConfiguredPolicy == section_get(ssh_tunnel_config, K_host_key_policy, V_auto_add)

\* C12: the policy class a started session sets on its client is the one
\* the configured host_key_policy names, compared without regard to case:
\* WarningPolicy for a variant of "warn", RejectPolicy for a variant of
\* "reject", AutoAddPolicy for a variant of "auto-add" and for every other
\* value.
C12_PolicyIgnoresCase ==
    \A i \in 1..Len(sessions) :
        sessions[i].starts > 0 =>
            sessions[i].policy =
                IF SameIgnoringCase(ConfiguredPolicy, V_warn) THEN "WarningPolicy"
                ELSE IF SameIgnoringCase(ConfiguredPolicy, V_reject) THEN "RejectPolicy"
                ELSE "AutoAddPolicy"

\* C12 witness: "WARN" in the configuration, WarningPolicy on the client.
C12_Witness ==
    /\ ConfiguredPolicy = <<"W", "A", "R", "N">>
    /\ sessions[1].starts > 0
    /\ sessions[1].policy = "WarningPolicy"

\* What each specification of SessionUrls says, read off its text.
SpecUser ==
    [u \in SessionUrls |->
        IF u \in {U_ssh_user_jump, U_user_pw, U_pw_jump} THEN <<"u", "s", "e", "r">>
        ELSE IF u = U_empty_user THEN <<>> ELSE None]
SpecPassword ==
    [u \in SessionUrls |->
        IF u \in {U_user_pw, U_pw_jump} THEN <<"s", "3", "c", "r", "e", "t">> ELSE None]
SpecHost ==
    [u \in SessionUrls |-> IF u \in {U_bastion, U_user_pw} THEN S_bastion ELSE S_jump]

\* The user ~/.ssh/config gives for the bastion of the specification, None
\* when the file is absent or unparsable or has no user for that host.
ConfigUser ==
    IF ssh_config.is_file /\ ssh_config.parse_ok
       /\ ssh_config.host = SpecHost[ssh_tunnel_url]
    THEN ssh_config.options.user ELSE None

\* C13: the session's username is the specification's when it has one, else
\* the user ~/.ssh/config has for the bastion, else the OS user; the
\* password is the specification's (None when it has none). Both reach
\* connect unchanged.
C13_UsernameFallback ==
    \A i \in 1..Len(sessions) :
        LET s    == sessions[i]
            user == IF Truthy(SpecUser[ssh_tunnel_url]) THEN SpecUser[ssh_tunnel_url]
                    ELSE IF Truthy(ConfigUser) THEN ConfigUser
                    ELSE OsUser
        IN  /\ s.ssh_username = user
            /\ s.ssh_password = SpecPassword[ssh_tunnel_url]
            /\ s.connects > 0 =>
                  /\ s.connect_kwargs.username = user
                  /\ s.connect_kwargs.password = SpecPassword[ssh_tunnel_url]

\* C13 witness: the specification and ~/.ssh/config both name a user for
\* "jump"; the session connected as the specification's user.
C13_Witness ==
    /\ ssh_tunnel_url = U_ssh_user_jump
    /\ Truthy(ConfigUser)
    /\ sessions[1].connects > 0
    /\ sessions[1].connect_kwargs.username = <<"u", "s", "e", "r">>

\* ------------------------------------------------------------------------
\* Claims about process exit (specification Spec)
\* ------------------------------------------------------------------------

\* The sessions whose start() returned: their accept loop has run.
StartedSessions == {i \in 1..Len(sessions) : sessions[i].starts > 0
                                              /\ sessions[i].server_state \in {"serving", "shutdown"}}

\* C14: once the process has exited, by running off its end or through
\* sys.exit, every session whose start_tunnel returned an address has its
\* accept loop shut down and its SSH connection closed.
C14_ExitStopsEverySession ==
    proc.state = "exited" =>
        \A i \in StartedSessions :
            /\ sessions[i].server_state = "shutdown"
            /\ sessions[i].client_state = "closed"

\* C14 for a manager that started one session only.
C14_ExitStopsOnlySession ==
    proc.state = "exited" /\ Cardinality(StartedSessions) = 1 /\ atexit_hooks = 1 =>
        \A i \in StartedSessions :
            /\ sessions[i].server_state = "shutdown"
            /\ sessions[i].client_state = "closed"

\* ------------------------------------------------------------------------
\* Claims about start() and stop() of one session (specification
\* SpecSession)
\* ------------------------------------------------------------------------

\* C19: a session on which a stop() call has returned is never active again
\* and never holds a listener again, whatever is called on it afterwards.
C19_StoppedIsTerminal ==
    \A i \in 1..Len(sessions) :
        sessions[i].stop_called /\ ~sessions[i].stop_waiting =>
            ~sessions[i].is_active /\ sessions[i].server = "None"

\* C19 for stop() alone: right after a stop() call the session is not
\* active, and stop() never makes a session active.
C19_StopDeactivates ==
    last_call.op = "stop" => ~sessions[1].is_active

\* C20: a stop() call, in whatever state the session is, returns; after it
\* the session is not active and holds neither listener nor client; the
\* listener has been shut down at most once and the client closed at most
\* once.
C20_StopFromAnyState ==
    last_call.op = "stop" =>
        /\ last_call.outcome = "returned"
        /\ ~sessions[1].is_active
        /\ sessions[1].server = "None"
        /\ sessions[1].client = "None"
        /\ sessions[1].shutdowns <= 1
        /\ sessions[1].closes <= 1

\* C20 for the sessions whose listener, if they hold one, has its accept
\* loop running.
C20_StopWithAcceptLoop ==
    last_call.op = "stop" /\ sessions[1].server_state # "bound" =>
        /\ last_call.outcome = "returned"
        /\ ~sessions[1].is_active
        /\ sessions[1].server = "None"
        /\ sessions[1].client = "None"
        /\ sessions[1].shutdowns <= 1
        /\ sessions[1].closes <= 1

\* ------------------------------------------------------------------------
\* Claims about DsnAliases (specification SpecDsn)
\* ------------------------------------------------------------------------

AliasNames == {K_mydb, K_db2, K_junk, K_local, K_nonexistent, K_includedir}

\* The place of each .conf name of FileNames in sorted order (upper case
\* sorts before lower case).
SortRank ==
    [f \in {N_Z_last, N_a_first, N_b_second} |->
        IF f = N_Z_last THEN 1 ELSE IF f = N_a_first THEN 2 ELSE 3]

\* The aliases a file of the directory dir offers, and the files that offer
\* a name: regular .conf files that parse.
Offers(dir, f) ==
    IF DOMAIN dir.entries[f].section # {} THEN dir.entries[f].section
    ELSE dir.entries[f].top
Definers(dir, name) ==
    {f \in DOMAIN SortRank :
        /\ dir.entries[f].kind = "file"
        /\ dir.entries[f].parse_ok
        /\ name \in DOMAIN Offers(dir, f)}
LastDefiner(dir, name) ==
    CHOOSE f \in Definers(dir, name) :
        \A g \in Definers(dir, name) : SortRank[g] <= SortRank[f]

\* The result of loading dir, name by name.
ExpectedIncluded(dir) ==
    [name \in {n \in AliasNames : Definers(dir, n) # {}} |->
        Offers(dir, LastDefiner(dir, name))[name]]

\* C15: for an alias name (not a directive) of the main [alias_dsn] section,
\* get and get_all give the main value and get_source "config", whether or
\* not an include file defines it too; for a name only the includes define,
\* they give the included value and "include"; for any other name get and
\* get_source give None and get_all has no such key.
C15_MainConfigWins ==
    \A name \in AliasNames \ DIRECTIVES :
        IF name \in DOMAIN config.alias_dsn
        THEN /\ get(name) = config.alias_dsn[name]
             /\ name \in DOMAIN get_all /\ get_all[name] = config.alias_dsn[name]
             /\ get_source(name) = "config"
        ELSE IF name \in DOMAIN included_aliases
        THEN /\ get(name) = included_aliases[name]
             /\ name \in DOMAIN get_all /\ get_all[name] = included_aliases[name]
             /\ get_source(name) = "include"
        ELSE /\ get(name) = None
             /\ name \notin DOMAIN get_all
             /\ get_source(name) = "None"

\* C15 witness: mydb is in the main section and, with another value, in the
\* loaded includes.
C15_Witness ==
    /\ K_mydb \in DOMAIN config.alias_dsn
    /\ K_mydb \in DOMAIN included_aliases
    /\ included_aliases[K_mydb] # config.alias_dsn[K_mydb]
    /\ get(K_mydb) = V_main

\* C16: the included aliases are those of the directory as it was at the
\* latest load (construction or reload_includes), whatever happened to the
\* directory since.
C16_IncludesAreSnapshot ==
    included_aliases = ExpectedIncluded(loaded)

\* C16 witness: every file that defined db2 is gone from the directory, no
\* reload happened since, and db2 is still among the included aliases.
C16_Witness ==
    /\ loaded # fs
    /\ Definers(fs, K_db2) = {}
    /\ K_db2 \in DOMAIN included_aliases

\* C17: "includedir" is no key of get_all, no element of list and
\* get("includedir") is None.
C17_DirectiveNeverExposed ==
    /\ K_includedir \notin DOMAIN get_all
    /\ \A i \in 1..Len(list) : list[i] # K_includedir
    /\ get(K_includedir) = None

\* C17 for the directive of the main section: while no include file defines
\* "includedir", it is exposed by no accessor.
C17_MainDirectiveHidden ==
    K_includedir \notin DOMAIN included_aliases =>
        /\ K_includedir \notin DOMAIN get_all
        /\ \A i \in 1..Len(list) : list[i] # K_includedir
        /\ get(K_includedir) = None

\* C18: for a name that loaded include files define and the main section
\* does not, get gives the value of the defining file whose name sorts
\* last, in whatever order the directory was listed.
C18_LastSortedFileWins ==
    \A name \in AliasNames \ DIRECTIVES :
        name \notin DOMAIN config.alias_dsn /\ Definers(loaded, name) # {} =>
            get(name) = Offers(loaded, LastDefiner(loaded, name))[name]

\* C18 witness: Z_last.conf and a_first.conf both define mydb; a_first.conf
\* sorts after Z_last.conf and its value is the one returned.
C18_Witness ==
    /\ K_mydb \notin DOMAIN config.alias_dsn
    /\ Definers(loaded, K_mydb) = {N_Z_last, N_a_first}
    /\ get(K_mydb) = V_first

\* ------------------------------------------------------------------------
\* Claims about a failed connect and the order of teardown (specification
\* SpecSession)
\* ------------------------------------------------------------------------

\* C21: when the connect step of start() raises (connection refused,
\* authentication failure, host key rejected), start() raises to its caller,
\* the session is not active, it holds no listener, no port is bound and no
\* accept thread exists, and connect has been called exactly once.
C21_ConnectFailureIsFatal ==
    last_call.op = "start" /\ last_call.failed_at \in ConnectFailures =>
        /\ last_call.outcome = "raised"
        /\ ~sessions[1].is_active
        /\ sessions[1].server = "None"
        /\ sessions[1].server_state \notin {"bound", "serving"}
        /\ local_bind_port(sessions[1]) = NoPort
        /\ sessions[1].thread = "None"
        /\ sessions[1].client_state = "created"
        /\ sessions[1].connects = 1

\* A start() whose connect was rejected for the host key, on a session that
\* had been started and stopped before.
C21_Witness ==
    /\ last_call.op = "start"
    /\ last_call.failed_at = "host_key_rejected"
    /\ sessions[1].starts = 2
    /\ sessions[1].connects = 1
    /\ ~sessions[1].is_active

\* C24: in every stop() call is_active is cleared before anything else, and
\* the listener's accept loop is shut down before the SSH client is closed.
C24_ServerBeforeClient ==
    \A i \in 1..Len(sessions) :
        LET td == sessions[i].teardown
        IN  /\ td # <<>> => td[1] = "is_active = False"
            /\ \A j, k \in DOMAIN td :
                   td[j] = "shutdown" /\ td[k] = "close" => j < k

\* A stop() call that shut the listener down and closed the client.
C24_Witness ==
    /\ last_call.op = "stop"
    /\ sessions[1].teardown = <<"is_active = False", "shutdown", "close">>
    /\ sessions[1].shutdowns = 1
    /\ sessions[1].closes = 1

\* ------------------------------------------------------------------------
\* Claims about the resolution of the connection parameters (specification
\* SpecSession)
\* ------------------------------------------------------------------------

\* The port each specification of SessionUrls names, read off its text;
\* NoPort when it names none.
SpecPort ==
    [u \in SessionUrls |->
        IF u = U_bastion THEN 22
        ELSE IF u \in {U_user_pw, U_pw_jump} THEN 2222
        ELSE IF u = U_port_zero THEN 0
        ELSE NoPort]

\* The parameters start_tunnel hands to the session.
Resolved(s) ==
    [ssh_hostname |-> s.ssh_hostname, ssh_port |-> s.ssh_port,
     ssh_username |-> s.ssh_username, ssh_password |-> s.ssh_password,
     ssh_proxy |-> s.ssh_proxy, key_filenames |-> s.key_filenames]

\* The parameters that come from the specification alone.
FromSpecification ==
    [ssh_hostname  |-> SpecHost[ssh_tunnel_url],
     ssh_port      |-> IF SpecPort[ssh_tunnel_url] \in 1..65535
                       THEN SpecPort[ssh_tunnel_url] ELSE 22,
     ssh_username  |-> IF Truthy(SpecUser[ssh_tunnel_url]) THEN SpecUser[ssh_tunnel_url]
                       ELSE OsUser,
     ssh_password  |-> SpecPassword[ssh_tunnel_url],
     ssh_proxy     |-> None,
     key_filenames |-> <<>>]

\* ~/.ssh/config has an entry for the bastion of the specification.
ConfigHasHost == ssh_config.host = SpecHost[ssh_tunnel_url]

\* Applying the entry raises: its Port option is read (the specification
\* names no port) and is not a number.
ApplyingRaises ==
    /\ ssh_config.is_file /\ ssh_config.parse_ok /\ ConfigHasHost
    /\ SpecPort[ssh_tunnel_url] \notin 1..65535
    /\ ssh_config.options.port # None
    /\ ~IsDigits(ssh_config.options.port)

\* C29: when ~/.ssh/config is missing, cannot be parsed, or raises while it
\* is applied, the session is constructed from the specification alone:
\* its host, its port or 22, its user or the OS user, no proxy command and no
\* identity file.
C29_UnusableConfigIgnored ==
    ~ssh_config.is_file \/ ~ssh_config.parse_ok \/ ApplyingRaises =>
        \A i \in 1..Len(sessions) : Resolved(sessions[i]) = FromSpecification

\* C29 for a file that is missing or cannot be parsed.
C29_MissingOrUnparsable ==
    ~ssh_config.is_file \/ ~ssh_config.parse_ok =>
        \A i \in 1..Len(sessions) : Resolved(sessions[i]) = FromSpecification

\* The port ~/.ssh/config gives for the bastion of the specification, NoPort
\* when the file is missing or unparsable, has no port for that host, or has
\* one that is not a number.
ConfigPort ==
    IF ssh_config.is_file /\ ssh_config.parse_ok /\ ConfigHasHost
       /\ ssh_config.options.port # None /\ IsDigits(ssh_config.options.port)
    THEN ToInt(ssh_config.options.port) ELSE NoPort

S_scheme == <<"s", "s", "h", ":", "/", "/">>

Relaying == {c \in 1..Len(conns) : conns[c].pc \in {"relay", "sendall"}}

\* The latest call on the session is a stop() that has returned.
StopReturned == last_call.op = "stop" /\ last_call.outcome = "returned"

\* C22: once stop() has returned, the listening socket of the session is
\* closed and its accept loop does not run.
C22_StoppedAdmitsNothing ==
    StopReturned =>
        /\ sessions[1].server_state # "serving"
        /\ listener_socket(1) \in {"none", "closed"}

\* C22 for the accept loop alone: after stop() has returned no connection
\* is accepted and no channel is opened.
C22_NoAcceptAfterStop ==
    [][StopReturned /\ last_call' = last_call =>
          /\ Len(conns') = Len(conns)
          /\ \A c \in 1..Len(conns) : conns'[c].chan = conns[c].chan]_vars

C23_StopTouchesNoHandler ==
    [][sessions' # sessions => conns' = conns]_vars

\* C25: a connection whose channel could not be opened (open_channel raised
\* or was rejected) is closed with the error logged and no byte read or
\* written, and the step in which that happens changes neither the session
\* nor any other connection.
C25_FailedOpenIsLocal ==
    /\ [](\A c \in 1..Len(conns) :
             conns[c].channel \in {"raised", "rejected"} =>
                 /\ conns[c].pc = "done"
                 /\ conns[c].request = "closed"
                 /\ conns[c].logged = 1
                 /\ conns[c].chan = 0
                 /\ conns[c].recvs = 0
                 /\ conns[c].up = NoTraffic /\ conns[c].down = NoTraffic)
    /\ [][\A c \in 1..Len(conns) :
             conns[c].pc = "open_channel" /\ conns'[c].channel \in {"raised", "rejected"} =>
                 /\ sessions' = sessions
                 /\ Len(conns') = Len(conns)
                 /\ \A d \in 1..Len(conns) : d # c => conns'[d] = conns[d]]_vars

\* The bastion rejected the channel of the first connection; the session is
\* active and the second connection has forwarded data in both directions.
C25_Witness ==
    /\ Len(conns) = 2
    /\ conns[1].channel = "rejected"
    /\ sessions[1].is_active /\ sessions[1].server_state = "serving"
    /\ conns[2].pc = "relay"
    /\ conns[2].up.sent # <<>> /\ conns[2].down.sent # <<>>

\* C26: a relay loop that has ended (end of stream or an I/O error on
\* either side) has closed its channel and its local socket and forwards
\* nothing afterwards, and the step in which it ends changes neither the
\* session nor any other connection.
C26_EndClosesBothSides ==
    /\ [](\A c \in 1..Len(conns) :
             conns[c].pc = "done" =>
                 /\ conns[c].request = "closed"
                 /\ conns[c].channel # "open"
                 /\ conns[c].data = NoData)
    /\ [][\A c \in 1..Len(conns) :
             /\ conns[c].pc = "done" => conns'[c] = conns[c]
             /\ c \in Relaying /\ conns'[c].pc = "done" =>
                 /\ sessions' = sessions
                 /\ Len(conns') = Len(conns)
                 /\ \A d \in 1..Len(conns) : d # c => conns'[d] = conns[d]]_vars

\* The first connection ended after forwarding data; the session is active
\* and the second connection is being relayed.
C26_Witness ==
    /\ Len(conns) = 2
    /\ conns[1].pc = "done" /\ conns[1].channel = "closed"
    /\ conns[1].up.sent # <<>>
    /\ sessions[1].is_active /\ sessions[1].server_state = "serving"
    /\ conns[2].pc = "sendall" /\ channel_open(2)

\* The number of bytes of a direction's source that have been written to
\* its destination, and whether they were written in order, each once.
End(slices) ==
    IF slices = <<>> THEN 0 ELSE slices[Len(slices)].off + slices[Len(slices)].len
Contiguous(slices) ==
    \A k \in 1..Len(slices) :
        /\ slices[k].len > 0
        /\ slices[k].off = IF k = 1 THEN 0 ELSE slices[k - 1].off + slices[k - 1].len

\* What handle has written in direction dir is a prefix of what it has read;
\* while the loop runs it is all of it, but for the chunk in hand.
Intact(conn, dir, traffic) ==
    /\ Contiguous(traffic.sent)
    /\ End(traffic.sent) <= traffic.read
    /\ \A k \in 1..Len(traffic.sent) : traffic.sent[k].len <= 4096
    /\ conn.pc = "relay" => End(traffic.sent) = traffic.read
    /\ conn.pc = "sendall" =>
           IF conn.data.dir = dir
           THEN /\ End(traffic.sent) = conn.data.off
                /\ conn.data.off + conn.data.len = traffic.read
           ELSE End(traffic.sent) = traffic.read

\* C27: in each direction of every connection the bytes written are the
\* bytes read, in order and each once, up to the chunk in hand (a prefix of
\* it after a failure), and no recv returns more than 4096 bytes.
C27_RelayIntegrity ==
    \A c \in 1..Len(conns) :
        /\ Intact(conns[c], "up", conns[c].up)
        /\ Intact(conns[c], "down", conns[c].down)
        /\ conns[c].data.len <= 4096
        /\ conns[c].pc = "sendall" <=> conns[c].data # NoData

\* Two full chunks went up one connection, and a sendall down another one
\* failed after its first byte.
C27_Witness ==
    /\ Len(conns) = 2
    /\ conns[1].up.sent = <<[off |-> 0, len |-> 4096], [off |-> 4096, len |-> 4096]>>
    /\ conns[2].pc = "done"
    /\ conns[2].down.read = 4096
    /\ conns[2].down.sent = <<[off |-> 0, len |-> 1]>>

\* C28: no two forwarders have the same local socket or the same channel,
\* and no step changes what two of them have read or written.
C28_ForwardersIsolated ==
    /\ [](\A c, d \in 1..Len(conns) :
             c # d =>
                 /\ conns[c].sock # conns[d].sock
                 /\ conns[c].chan # 0 /\ conns[d].chan # 0
                        => conns[c].chan # conns[d].chan)
    /\ [][\A c, d \in 1..Len(conns) :
             c # d => conns'[c] = conns[c] \/ conns'[d] = conns[d]]_vars

\* Two connections are relayed at once and both have forwarded data.
C28_Witness ==
    /\ Len(conns) = 2
    /\ conns[1].pc = "sendall" /\ conns[2].pc = "sendall"
    /\ conns[1].up.sent # <<>> /\ conns[2].down.sent # <<>>
    /\ conns[1].chan # conns[2].chan

\* ------------------------------------------------------------------------
\* Claims about the options of the "ssh tunnels" section (specification
\* SpecFactory)
\* ------------------------------------------------------------------------

\* The entries of the section that are options, not tunnel rules.
OptionKeys == {K_allow_agent, K_host_key_policy}
OptionEntries ==
    {i \in 1..Len(ssh_tunnel_config) : ssh_tunnel_config[i].pattern \in OptionKeys}

\* C34: find_tunnel_url never answers with the value of an option of the
\* "ssh tunnels" section, whatever the host asked for.
C34_OptionsAreNoRules ==
    query.done =>
        \A i \in OptionEntries : query.result # ssh_tunnel_config[i].url

\* C34 for the hosts that are not named like an option.
C34_OtherHosts ==
    query.done /\ query.host \notin OptionKeys =>
        \A i \in OptionEntries : query.result # ssh_tunnel_config[i].url

\* ------------------------------------------------------------------------
\* Claims about the identity files and the state of one session
\* (specification SpecSession)
\* ------------------------------------------------------------------------

\* The identity files ~/.ssh/config resolves for the bastion, expanded, when
\* the configuration is read and applied without error; none otherwise.
ResolvedIdentityFiles ==
    IF ssh_config.is_file /\ ssh_config.parse_ok /\ ConfigHasHost /\ ~ApplyingRaises
    THEN [k \in 1..Len(ssh_config.options.identityfile) |->
              expanduser(ssh_config.options.identityfile[k])]
    ELSE <<>>

\* The positions of ResolvedIdentityFiles whose file exists, and the j-th
\* of them.
OnDisk == {k \in 1..Len(ResolvedIdentityFiles) : ResolvedIdentityFiles[k] \in ssh_config.files}
NthOnDisk(j) == CHOOSE k \in OnDisk : Cardinality({m \in OnDisk : m <= k}) = j

\* C31: the key files of the session are the resolved identity files that
\* exist on disk, each once and in the resolved order; a missing file is not
\* among them and does not keep the session from being constructed; connect
\* is called with that list (without key_filename when it is empty).
C31_ExistingIdentityFilesInOrder ==
    \A i \in 1..Len(sessions) :
        /\ Len(sessions[i].key_filenames) = Cardinality(OnDisk)
        /\ \A j \in 1..Cardinality(OnDisk) :
               sessions[i].key_filenames[j] = ResolvedIdentityFiles[NthOnDisk(j)]
        /\ \A j \in 1..Len(sessions[i].key_filenames) :
               sessions[i].key_filenames[j] \in ssh_config.files
        /\ sessions[i].connects > 0 =>
               /\ sessions[i].connect_kwargs.key_filename = sessions[i].key_filenames
               /\ "key_filename" \in sessions[i].connect_kwargs.names
                      <=> sessions[i].key_filenames # <<>>

\* Three identity files resolved, the second missing: connect was called
\* with the first and the third.
C31_Witness ==
    /\ Len(ResolvedIdentityFiles) = 3
    /\ OnDisk = {1, 3}
    /\ sessions[1].connects > 0
    /\ sessions[1].connect_kwargs.key_filename = <<expanduser(F_id_jump), F_id_all>>

FailedAfterConnect ==
    /\ last_call.op = "start_tunnel"
    /\ last_call.failed_at \in {"bind_failed", "thread_failed"}

\* C33: when start_tunnel has reported a start that failed after connect
\* and the process has exited, the SSH connection of that session is closed
\* and it holds no bound listener.
C33_FailedStartReleases ==
    FailedAfterConnect /\ proc.state = "exited" =>
        /\ sessions[last_call.session].client_state = "closed"
        /\ sessions[last_call.session].server_state \notin {"bound", "serving"}

\* C33 for what the code does do: the failure is reported once, the process
\* exits with status 1 and the failed session never becomes self.tunnel.
C33_FailedStartIsFatal ==
    FailedAfterConnect =>
        /\ proc.state = "exited" /\ proc.status = 1 /\ proc.diagnostics = 1
        /\ tunnel # last_call.session
        /\ ~sessions[last_call.session].is_active

\* ------------------------------------------------------------------------
\* Claims about the agreement of the DsnAliases accessors (specification
\* SpecDsn)
\* ------------------------------------------------------------------------

InList(name) == \E i \in 1..Len(list) : list[i] = name

\* C38: for every name, the six accessors agree on whether the name is an
\* alias, and get_all()[name] is get(name).
C38_AccessorsAgree ==
    \A name \in AliasNames :
        /\ InList(name) <=> get(name) # None
        /\ InList(name) <=> name \in DOMAIN get_all
        /\ InList(name) <=> get_source(name) # "None"
        /\ InList(name) <=> dsn_contains(name)
        /\ InList(name) <=> dsn_getitem(name).raised = "none"
        /\ name \in DOMAIN get_all => get_all[name] = get(name)

\* C38 for the names that are not directives.
C38_AliasAccessorsAgree ==
    \A name \in AliasNames \ DIRECTIVES :
        /\ InList(name) <=> get(name) # None
        /\ InList(name) <=> name \in DOMAIN get_all
        /\ InList(name) <=> get_source(name) # "None"
        /\ InList(name) <=> dsn_contains(name)
        /\ InList(name) <=> dsn_getitem(name).raised = "none"
        /\ name \in DOMAIN get_all =>
               get_all[name] = get(name) /\ dsn_getitem(name).value = get(name)

\* ------------------------------------------------------------------------
\* Claims about the forwarders of a stopped session (specification
\* SpecRelayFair)
\* ------------------------------------------------------------------------

\* stop() has been called on the session of forwarder c since c was
\* accepted: the session was active when it accepted c, and it is inactive
\* or has been started again since (a start follows a stop that returned).
StoppedSince(c) ==
    /\ c \in 1..Len(conns)
    /\ \/ sessions[conns[c].session].starts > conns[c].epoch
       \/ ~sessions[conns[c].session].is_active

Terminated(c) ==
    /\ c \in 1..Len(conns)
    /\ conns[c].pc = "done"
    /\ conns[c].channel # "open"
    /\ conns[c].request = "closed"

OptionOf(flag) ==
    IF flag \in HostFlags THEN "host" ELSE IF flag \in PortFlags THEN "port" ELSE "dbname"
RECURSIVE Read(_)
Read(argv) ==
    IF argv = <<>> THEN <<>>
    ELSE IF Head(argv) \in HostFlags \cup PortFlags \cup DbnameFlags
    THEN <<[opt |-> OptionOf(Head(argv)),
            value |-> IF Len(argv) >= 2 THEN argv[2] ELSE None]>>
             \o Read(SubSeq(argv, 3, Len(argv)))
    ELSE IF startswith(Head(argv), E_host)
    THEN <<[opt |-> "host", value |-> after_first(Head(argv), "=")]>> \o Read(Tail(argv))
    ELSE IF startswith(Head(argv), E_port)
    THEN <<[opt |-> "port", value |-> after_first(Head(argv), "=")]>> \o Read(Tail(argv))
    ELSE IF startswith(Head(argv), E_dbname)
    THEN <<[opt |-> "dbname", value |-> after_first(Head(argv), "=")]>> \o Read(Tail(argv))
    ELSE <<[opt |-> "other", value |-> Head(argv)]>> \o Read(Tail(argv))

\* pg_dump accepts the command line: no option lacks its value.
WellFormed(argv) == \A k \in 1..Len(Read(argv)) : Read(argv)[k].value # None

\* The keyword=value parts of the connection strings given as dbname.
ConnectionParts(argv) ==
    UNION {{split_blank(Read(argv)[k].value)[j] :
                j \in 1..Len(split_blank(Read(argv)[k].value))} :
           k \in {m \in 1..Len(Read(argv)) :
                     /\ Read(argv)[m].opt = "dbname"
                     /\ Read(argv)[m].value # None
                     /\ Contains(Read(argv)[m].value, <<"=">>)}}

\* Every host and every port the command line names, as an option or inside
\* a connection string.
HostSettings(argv) ==
    {Read(argv)[k].value : k \in {m \in 1..Len(Read(argv)) : Read(argv)[m].opt = "host"}}
        \cup {after_first(part, "=") :
                 part \in {q \in ConnectionParts(argv) : startswith(q, KV_host)}}
PortSettings(argv) ==
    {Read(argv)[k].value : k \in {m \in 1..Len(Read(argv)) : Read(argv)[m].opt = "port"}}
        \cup {after_first(part, "=") :
                 part \in {q \in ConnectionParts(argv) : startswith(q, KV_port)}}

\* What the command line says beside host and port, in order: the other
\* arguments, and of each dbname its value without host= and port= parts.
WithoutAddress(r) ==
    IF r.opt = "dbname" /\ r.value # None /\ Contains(r.value, <<"=">>)
    THEN [opt |-> "dbname",
          value |-> SelectSeq(split_blank(r.value),
                              LAMBDA part : /\ ~startswith(part, KV_host)
                                            /\ ~startswith(part, KV_port))]
    ELSE r
Others(argv) ==
    [k \in 1..Len(SelectSeq(Read(argv), LAMBDA r : r.opt \notin {"host", "port"})) |->
        WithoutAddress(SelectSeq(Read(argv), LAMBDA r : r.opt \notin {"host", "port"})[k])]

\* pg_dump runs behind the tunnel of the manager.
Tunneled == dump.pc = "pg_dump" /\ tunnel # 0

\* The command line of pg_dump names only the tunnel's address, names it at
\* least once for host and for port, and says the same beside.
OnlyTheTunnel ==
    /\ HostSettings(dump.final_args) = {S_loopback}
    /\ PortSettings(dump.final_args) = {str(local_bind_port(sessions[tunnel]))}
    /\ Others(dump.final_args) = Others(dump.args)

\* -h and -p with the tunnel's address are the last arguments when the
\* original names no host and no port.
AppendedWhenAbsent ==
    /\ HostSettings(dump.args) = {} =>
           \E k \in 1..(Len(dump.final_args) - 1) :
               /\ k > Len(dump.args)
               /\ dump.final_args[k] = O_h /\ dump.final_args[k + 1] = S_loopback
    /\ PortSettings(dump.args) = {} =>
           /\ Len(dump.final_args) >= 2
           /\ dump.final_args[Len(dump.final_args) - 1] = O_p
           /\ dump.final_args[Len(dump.final_args)]
                  = str(local_bind_port(sessions[tunnel]))

\* C36: for every command line pg_dump accepts, the command line built
\* behind a tunnel is directed only at the tunnel: every host option and
\* every host= of a connection string carries the tunnel's host, every port
\* option and port= the tunnel's port, -h and -p are appended when the
\* original had none, and everything else is kept in order.
C36_DirectedOnlyAtTunnel ==
    Tunneled /\ WellFormed(dump.args) => OnlyTheTunnel /\ AppendedWhenAbsent

\* The connection strings of the command line that carry port= without
\* host=.
PortOnlyStrings(argv) ==
    {k \in 1..Len(Read(argv)) :
        /\ Read(argv)[k].opt = "dbname"
        /\ Read(argv)[k].value # None
        /\ ~Contains(Read(argv)[k].value, KV_host)
        /\ \E j \in 1..Len(split_blank(Read(argv)[k].value)) :
               startswith(split_blank(Read(argv)[k].value)[j], KV_port)}

\* C36 for the command lines in which every connection string that names a
\* port names a host too.
C36_HostedStringsRewritten ==
    Tunneled /\ WellFormed(dump.args) /\ PortOnlyStrings(dump.args) = {}
        => OnlyTheTunnel /\ AppendedWhenAbsent

\* The lines of ~/.pgpass that are entries matching the address of the
\* database behind the tunnel and the user and database of the command
\* line.
MatchingLines ==
    {k \in 1..Len(dump.pgpass.lines) :
        /\ is_entry(dump.pgpass.lines[k])
        /\ line_matches(dump.pgpass.lines[k],
                        sessions[tunnel].remote_host, sessions[tunnel].remote_port,
                        parse_user_and_database(dump.args).database,
                        parse_user_and_database(dump.args).user)}
FirstMatch == CHOOSE k \in MatchingLines : \A m \in MatchingLines : k <= m

\* C37: behind a tunnel, the ~/.pgpass lookup is made with the address of
\* the database (the tunnel's remote end), never with the tunnel's local
\* address; pg_dump is given the password of the first matching line; a
\* PGPASSWORD of the environment is passed on as it is, without a lookup.
\* Without a tunnel pg_dump gets the environment and the arguments of the
\* command line unchanged.
C37_PgpassByOriginalAddress ==
    dump.pc = "pg_dump" =>
        IF tunnel = 0
        THEN dump.env = dump.environ /\ dump.final_args = dump.args
        ELSE IF K_PGPASSWORD \in DOMAIN dump.environ
        THEN dump.env = dump.environ /\ ~dump.lookup.called
        ELSE /\ dump.lookup.called
             /\ dump.lookup.host = sessions[tunnel].remote_host
             /\ dump.lookup.port = sessions[tunnel].remote_port
             /\ <<dump.lookup.host, dump.lookup.port>>
                    # <<S_loopback, local_bind_port(sessions[tunnel])>>
             /\ IF dump.pgpass.exists /\ dump.pgpass.readable /\ MatchingLines # {}
                THEN /\ K_PGPASSWORD \in DOMAIN dump.env
                     /\ dump.env[K_PGPASSWORD] = pg_pass(dump.pgpass.lines[FirstMatch])
                ELSE dump.env = dump.environ

\* Behind a tunnel to db.prod.com:6432, without PGPASSWORD, two lines of
\* ~/.pgpass match user admin and a third matches the tunnel's local
\* address: pg_dump is given the password of the first.
C37_Witness ==
    /\ Tunneled
    /\ sessions[tunnel].remote_port = 6432
    /\ K_PGPASSWORD \notin DOMAIN dump.environ
    /\ Cardinality(MatchingLines) >= 2
    /\ dump.env[K_PGPASSWORD] = <<"a", "d", "m", "i", "n", "p", "w">>

====
